---- MODULE Spec2Model ----
(***************************************************************************)
(* State-machine model of the MCP OAuth handler (src/oauth_handler.py) and *)
(* of the JSON-RPC client that calls it (src/datadog_mcp_client.py).       *)
(*                                                                         *)
(* Python strings that the code only stores and compares are TLA+ strings; *)
(* Python None is the value None.  Strings the code takes apart or encodes *)
(* (URLs, query strings) are sequences of atoms: an atom is either one     *)
(* reserved character (":", "/", "%", ...) or a run of unreserved          *)
(* characters ("https", "mcp-server").                                     *)
(***************************************************************************)
EXTENDS Integers, Sequences, FiniteSets, TLC

\* ------------------------------------------------------------------ bounds

\* coroutines that may be inside a client / handler call
NumTasks == 2
\* the clock stops advancing past this instant
MaxNow == 302
\* how many times the client (and with it the handler) is constructed anew
MaxConstruct == 1
\* the random byte strings of the PKCE generator come from NumSeeds * NumSeeds
\* patterns
NumSeeds == 10
\* a WWW-Authenticate header has at most this many challenge parameters
MaxParams == 3

\* ------------------------------------------------------- program constants

\* `self.token_expires_at - 300` in get_valid_token
REFRESH_MARGIN == 300
\* `timeout = 300` in _perform_authorization_flow
CALLBACK_TIMEOUT == 300
\* `token_data.get('expires_in', 3600)`
DEFAULT_EXPIRES_IN == 3600
\* `self.token_expires_at: Optional[float] = None`: no expiry recorded
NoneTime == 0

None == "None"
NoneSeq == <<>>

Tasks == 1..NumTasks

\* Python truthiness of an Optional[str]
Truthy(s) == s # None /\ s # ""

\* ------------------------------------------------------------ URL strings

\* the three URLs of src/test_canonical_uri.py, and one with query characters
CanonicalUrl ==
  <<"https", ":", "/", "/", "mcp", ".", "datadoghq", ".", "com", "/", "api",
    "/", "unstable", "/", "mcp-server", "/", "mcp">>
UpperUrl ==
  <<"HTTPS", ":", "/", "/", "MCP", ".", "DATADOGHQ", ".", "COM", "/", "API",
    "/", "UNSTABLE", "/", "MCP-SERVER", "/", "MCP">>
SlashUrl == CanonicalUrl \o <<"/">>
QueryUrl == <<"https", ":", "/", "/", "mcp", ".", "d", "/", "a", "+", "b", "%", "2F", "&", "r", "=", "x", " ", "y">>
ResourceUrls == {CanonicalUrl, UpperUrl, SlashUrl, QueryUrl}

\* os.getenv('DATADOG_REDIRECT_URI', 'http://localhost:8080/callback')
DefaultRedirectUri == <<"http", ":", "/", "/", "localhost", ":", "8080", "/", "callback">>

\* a redirect URI set with DATADOG_REDIRECT_URI
OtherRedirectUri == <<"http", ":", "/", "/", "localhost", ":", "9000", "/", "callback">>

\* urllib.parse.quote_plus: the reserved characters and their escapes
Escapes ==
  [c \in {":", "/", "?", "&", "=", "+", "%"} |->
     CASE c = ":" -> "3A" [] c = "/" -> "2F" [] c = "?" -> "3F"
       [] c = "&" -> "26" [] c = "=" -> "3D" [] c = "+" -> "2B"
       [] c = "%" -> "25"]

RECURSIVE quote_plus(_)
quote_plus(s) ==
  IF s = <<>> THEN <<>>
  ELSE (IF s[1] = " " THEN <<"+">>
        ELSE IF s[1] \in DOMAIN Escapes THEN <<"%", Escapes[s[1]]>>
        ELSE <<s[1]>>) \o quote_plus(Tail(s))

\* urllib.parse.urlencode of a list of (key, value) pairs
RECURSIVE urlencode(_)
urlencode(params) ==
  IF params = <<>> THEN <<>>
  ELSE quote_plus(params[1][1]) \o <<"=">> \o quote_plus(params[1][2])
       \o (IF Len(params) > 1 THEN <<"&">> ELSE <<>>)
       \o urlencode(Tail(params))

\* What the receiving server does with a query string (urllib.parse.parse_qsl):
\* unquote_plus, split at "&" and at the first "=".
Unescape(h2) ==
  IF \E c \in DOMAIN Escapes : Escapes[c] = h2
  THEN CHOOSE c \in DOMAIN Escapes : Escapes[c] = h2
  ELSE h2

RECURSIVE unquote_plus(_)
unquote_plus(s) ==
  IF s = <<>> THEN <<>>
  ELSE IF s[1] = "+" THEN <<" ">> \o unquote_plus(Tail(s))
  ELSE IF s[1] = "%" /\ Len(s) > 1 THEN <<Unescape(s[2])>> \o unquote_plus(Tail(Tail(s)))
  ELSE <<s[1]>> \o unquote_plus(Tail(s))

\* index of the first occurrence of atom c in s, or 0
RECURSIVE IndexOf(_, _)
IndexOf(s, c) ==
  IF s = <<>> THEN 0
  ELSE IF s[1] = c THEN 1
  ELSE LET i == IndexOf(Tail(s), c) IN IF i = 0 THEN 0 ELSE i + 1

\* the decoded value of the first parameter named key in a query string,
\* or NoneSeq
RECURSIVE QueryParam(_, _)
QueryParam(query, key) ==
  IF query = <<>> THEN NoneSeq
  ELSE LET amp  == IndexOf(query, "&")
           pair == IF amp = 0 THEN query ELSE SubSeq(query, 1, amp - 1)
           rest == IF amp = 0 THEN <<>> ELSE SubSeq(query, amp + 1, Len(query))
           eq   == IndexOf(pair, "=")
           k    == IF eq = 0 THEN pair ELSE SubSeq(pair, 1, eq - 1)
           v    == IF eq = 0 THEN <<>> ELSE SubSeq(pair, eq + 1, Len(pair))
       IN IF unquote_plus(k) = key THEN unquote_plus(v)
          ELSE QueryParam(rest, key)

\* the decoded names of the parameters of a query string, in order
RECURSIVE QueryKeys(_)
QueryKeys(query) ==
  IF query = <<>> THEN <<>>
  ELSE LET amp  == IndexOf(query, "&")
           pair == IF amp = 0 THEN query ELSE SubSeq(query, 1, amp - 1)
           rest == IF amp = 0 THEN <<>> ELSE SubSeq(query, amp + 1, Len(query))
           eq   == IndexOf(pair, "=")
           k    == IF eq = 0 THEN pair ELSE SubSeq(pair, 1, eq - 1)
       IN <<unquote_plus(k)>> \o QueryKeys(rest)

\* the part of a URL after its first "?"
QueryOf(url) ==
  LET q == IndexOf(url, "?") IN
  IF q = 0 THEN <<>> ELSE SubSeq(url, q + 1, Len(url))

\* urlparse(url).netloc for a URL of the form scheme://netloc[/path]
Netloc(url) ==
  LET rest == SubSeq(url, 5, Len(url))
      cut  == IndexOf(rest, "/")
  IN IF cut = 0 THEN rest ELSE SubSeq(rest, 1, cut - 1)

\* ---------------------------------------------- authorization server data

\* f"https://app.{self.datadog_site}/oauth2/v1" with the default site
MainIssuer ==
  <<"https", ":", "/", "/", "app", ".", "datadoghq", ".", "com", "/", "oauth2", "/", "v1">>
\* f"https://{mcp_parsed.netloc}/oauth2/v1"
McpIssuer(url) == <<"https", ":", "/", "/">> \o Netloc(url) \o <<"/", "oauth2", "/", "v1">>
\* an issuer that no Datadog convention matches
ExtIssuer ==
  <<"https", ":", "/", "/", "auth", ".", "example", ".", "com", "/", "tenant1">>

\* a Datadog issuer given as its authorization endpoint
AuthorizeIssuer == MainIssuer \o <<"/", "authorize">>

\* 'mcp.' in mcp_parsed.netloc (case-sensitive)
HasMcpDot(netloc) ==
  \E i \in 1..(Len(netloc) - 1) : netloc[i] = "mcp" /\ netloc[i + 1] = "."

\* the fallback list of discover_authorization_servers
FallbackServers(url) ==
  (IF HasMcpDot(Netloc(url)) THEN <<McpIssuer(url)>> ELSE <<>>) \o <<MainIssuer>>

\* 'datadoghq.com' in issuer_url or 'datadog' in issuer_url.lower()
IsDatadog(issuer) ==
  \E i \in 1..Len(issuer) : issuer[i] \in {"datadoghq", "DATADOGHQ", "datadog"}

\* self.auth_server_metadata is None
NoMetadata ==
  [present |-> FALSE, authorization_endpoint |-> NoneSeq, token_endpoint |-> NoneSeq,
   registration_endpoint |-> NoneSeq, pkce |-> "absent"]

\* the discovery documents an authorization server may answer with (HTTP 200)
DocKinds == {"full", "notoken", "noauthz"}
Doc(issuer, kind) ==
  [present |-> TRUE,
   authorization_endpoint |->
     IF kind = "noauthz" THEN NoneSeq ELSE issuer \o <<"/", "authorize">>,
   token_endpoint |->
     IF kind = "notoken" THEN NoneSeq ELSE issuer \o <<"/", "token">>,
   registration_endpoint |->
     IF kind = "full" THEN issuer \o <<"/", "register">> ELSE NoneSeq,
   pkce |-> IF kind = "full" THEN "S256" ELSE IF kind = "notoken" THEN "plain" ELSE "absent"]

\* issuer_url.endswith('/authorize')
EndsWithAuthorize(issuer) ==
  Len(issuer) >= 2 /\ issuer[Len(issuer)] = "authorize" /\ issuer[Len(issuer) - 1] = "/"

\* issuer_url.replace('/authorize', '/token')
RECURSIVE ReplaceAuthorize(_)
ReplaceAuthorize(s) ==
  IF Len(s) < 2 THEN s
  ELSE IF s[1] = "/" /\ s[2] = "authorize"
       THEN <<"/", "token">> \o ReplaceAuthorize(Tail(Tail(s)))
       ELSE <<s[1]>> \o ReplaceAuthorize(Tail(s))

\* faulty variant of FallbackMetadata: "/authorize" and "/token" are appended
\* to every issuer
FallbackMetadataAppends(issuer) ==
  [present |-> TRUE,
   authorization_endpoint |-> issuer \o <<"/", "authorize">>,
   token_endpoint |-> issuer \o <<"/", "token">>,
   registration_endpoint |-> NoneSeq,
   pkce |-> "S256"]

\* fallback_metadata of discover_authorization_server_metadata
FallbackMetadata(issuer) ==
  [present |-> TRUE,
   authorization_endpoint |->
     IF EndsWithAuthorize(issuer) THEN issuer ELSE issuer \o <<"/", "authorize">>,
   token_endpoint |->
     IF EndsWithAuthorize(issuer) THEN ReplaceAuthorize(issuer)
     ELSE issuer \o <<"/", "token">>,
   registration_endpoint |-> NoneSeq,
   pkce |-> "S256"]

\* The outcome of discover_authorization_server_metadata(issuer) when the
\* discovery URLs answer `outcome`: "fail" (none answers 200 with JSON) or the
\* kind of the first 200 document.  "raise" stands for the raised exception.
MetadataOutcomes == DocKinds \cup {"fail"}
DiscoverMetadata(issuer, outcome) ==
  IF outcome # "fail" THEN Doc(issuer, outcome)
  ELSE IF IsDatadog(issuer) THEN FallbackMetadata(issuer)
  ELSE NoMetadata

\* ------------------------------------------------------ token endpoint data

AccessTokens == {"at1", "at2"}
RefreshTokens == {"rt1", "rt2"}
Absent == "Absent"

\* A response of the token endpoint: a network error, an error status, or a
\* 2xx JSON body with or without each member.
TokenResponses ==
  [kind : {"network_error", "http_error"}, access_token : {Absent},
   refresh_token : {Absent}, has_expires_in : {FALSE}, expires_in : {0}]
  \cup
  [kind : {"ok"}, access_token : AccessTokens \cup {Absent},
   refresh_token : RefreshTokens \cup {Absent, None},
   has_expires_in : {FALSE}, expires_in : {0}]
  \cup
  [kind : {"ok"}, access_token : AccessTokens,
   refresh_token : RefreshTokens \cup {Absent, None},
   has_expires_in : {TRUE}, expires_in : {REFRESH_MARGIN}]

\* the expires_in member of the response body as it came: <<v>>, or <<>> when
\* the body has none
RawExpiresIn(resp) == IF resp.has_expires_in THEN <<resp.expires_in>> ELSE <<>>

\* token_data.get('expires_in', 3600)
ExpiresIn(resp) == IF resp.has_expires_in THEN resp.expires_in ELSE DEFAULT_EXPIRES_IN

\* ---------------------------------------------------------------- state

VARIABLES
  h,            \* the fields of the MCPDatadogOAuthHandler
  env,          \* DATADOG_CLIENT_ID / DATADOG_CLIENT_SECRET of the environment
  given_url,    \* the mcp_server_url the client was constructed with
  nconstruct,   \* how many times the client has been constructed again
  now,          \* time.time()
  http_client,  \* DatadogMCPClient.http_client and its default Authorization header
  session_id,   \* DatadogMCPClient.session_id
  pc,           \* per task: where the coroutine is suspended
  op,           \* per task: the call it is in
  log,          \* per task: what the current (or last) call has done, in order
  ret,          \* per task: what get_valid_token returned or raised
  cres,         \* per task: how the client call ended
  req,          \* per task: the HTTP request it is awaiting the response of
  servers,      \* per task: the local authorization_servers of start_mcp_oauth_flow
  server,       \* per task: the HTTPServer of _perform_authorization_flow
  lis,          \* per task: the listener thread inside do_GET
  start_time,   \* per task: start_time of the callback wait
  sent          \* history: what the authorization requests so far have carried

callVars == <<pc, op, log, ret, cres, req, http_client>>
flowVars == <<servers, server, lis, start_time>>
worldVars == <<env, given_url, nconstruct, now, sent>>
vars == <<h, env, given_url, nconstruct, now, http_client, session_id,
          pc, op, log, ret, cres, req, servers, server, lis, start_time, sent>>

\* secrets.token_urlsafe(32) and _generate_code_verifier: the n-th fresh value
StateNames == <<"state1", "state2", "state3", "state4">>
VerifierNames == <<"verifier1", "verifier2", "verifier3", "verifier4">>
\* _generate_code_challenge: the S256 transform, one-to-one on the verifiers
ChallengeOf(v) == <<"S256", v>>

\* ------------------------------------------------- PKCE at the byte level
\* The specifications of the flow keep the PKCE pair symbolic (the names
\* above); the definitions below compute it as lines 95-102 do, character by
\* character, for the specification SpecPkce.

\* the alphabet of base64.urlsafe_b64encode
UrlSafeAlphabet ==
  <<"A", "B", "C", "D", "E", "F", "G", "H", "I", "J", "K", "L", "M", "N", "O", "P",
    "Q", "R", "S", "T", "U", "V", "W", "X", "Y", "Z", "a", "b", "c", "d", "e", "f",
    "g", "h", "i", "j", "k", "l", "m", "n", "o", "p", "q", "r", "s", "t", "u", "v",
    "w", "x", "y", "z", "0", "1", "2", "3", "4", "5", "6", "7", "8", "9", "-", "_">>

\* base64.urlsafe_b64encode: three bytes give four characters; a last group
\* of one or two bytes is padded with "="
RECURSIVE urlsafe_b64encode(_)
urlsafe_b64encode(bytes) ==
  IF bytes = <<>> THEN <<>>
  ELSE IF Len(bytes) = 1 THEN
    <<UrlSafeAlphabet[(bytes[1] \div 4) + 1], UrlSafeAlphabet[(bytes[1] % 4) * 16 + 1],
      "=", "=">>
  ELSE IF Len(bytes) = 2 THEN
    LET n == bytes[1] * 256 + bytes[2]
    IN <<UrlSafeAlphabet[(n \div 1024) + 1], UrlSafeAlphabet[((n \div 16) % 64) + 1],
         UrlSafeAlphabet[(n % 16) * 4 + 1], "=">>
  ELSE
    LET n == bytes[1] * 65536 + bytes[2] * 256 + bytes[3]
    IN <<UrlSafeAlphabet[(n \div 262144) + 1], UrlSafeAlphabet[((n \div 4096) % 64) + 1],
         UrlSafeAlphabet[((n \div 64) % 64) + 1], UrlSafeAlphabet[(n % 64) + 1]>>
       \o urlsafe_b64encode(SubSeq(bytes, 4, Len(bytes)))

\* str.rstrip('=')
RECURSIVE rstrip_eq(_)
rstrip_eq(s) ==
  IF s # <<>> /\ s[Len(s)] = "=" THEN rstrip_eq(SubSeq(s, 1, Len(s) - 1)) ELSE s

\* str.encode('utf-8') of a string over the alphabet and "=": one byte per
\* character
Utf8Byte(c) ==
  IF c = "=" THEN 61
  ELSE LET i == CHOOSE k \in 1..64 : UrlSafeAlphabet[k] = c
       IN IF i <= 26 THEN 64 + i
          ELSE IF i <= 52 THEN 70 + i
          ELSE IF i <= 62 THEN i - 5
          ELSE IF i = 63 THEN 45 ELSE 95
Utf8(s) == [i \in 1..Len(s) |-> Utf8Byte(s[i])]

\* secrets.token_bytes(32)
TokenBytes == 32
\* the size of a SHA-256 digest
DigestBytes == 32

\* hashlib.sha256(msg).digest(): DigestBytes bytes that the message
\* determines.  The function is the library's; this stand-in has its domain
\* and its digest size and mixes every byte of the message into every byte
\* of the digest.
RECURSIVE ByteSum(_, _)
ByteSum(msg, w) ==
  IF msg = <<>> THEN 0 ELSE (msg[1] * w + ByteSum(Tail(msg), w + 2)) % 65536
sha256(msg) == [i \in 1..DigestBytes |-> (ByteSum(msg, i) + 31 * i) % 256]

\* faulty variant of generate_code_verifier: the padding is left in place
generate_code_verifier_padded(bytes) == urlsafe_b64encode(bytes)

\* _generate_code_verifier (line 97) for the random bytes drawn
generate_code_verifier(bytes) == rstrip_eq(urlsafe_b64encode(bytes))

\* _generate_code_challenge (lines 101-102)
generate_code_challenge(verifier) == rstrip_eq(urlsafe_b64encode(sha256(Utf8(verifier))))

\* the values secrets.token_bytes(32) is drawn from here
RandomBytes ==
  {[i \in 1..TokenBytes |-> (a * i + 23 * b) % 256] :
     a \in 0..(NumSeeds - 1), b \in 0..(NumSeeds - 1)}
  \cup {[i \in 1..TokenBytes |-> 255]}

\* MCPDatadogOAuthHandler.__init__
NewHandler(url, n) ==
  [mcp_server_url |-> url,
   redirect_uri |-> env.redirect_uri,
   resource_uri |-> url,
   state |-> StateNames[n],
   code_verifier |-> VerifierNames[n],
   code_challenge |-> ChallengeOf(VerifierNames[n]),
   client_id |-> None,
   client_secret |-> None,
   auth_server_metadata |-> NoMetadata,
   selected_auth_server |-> NoneSeq,
   access_token |-> None,
   refresh_token |-> None,
   token_expires_at |-> NoneTime]

\* the environment: DATADOG_CLIENT_ID and DATADOG_CLIENT_SECRET (lines 344-345)
\* and DATADOG_REDIRECT_URI with its default (line 67)
EnvChoices ==
  {[client_id |-> None, client_secret |-> None, redirect_uri |-> DefaultRedirectUri],
   [client_id |-> "abc", client_secret |-> None, redirect_uri |-> DefaultRedirectUri]}

Pending == [kind |-> "pending", val |-> None]
NoReq ==
  [kind |-> "none", url |-> NoneSeq, grant_type |-> None, client_id |-> None,
   client_secret |-> None, code |-> None, code_verifier |-> None,
   refresh_token |-> None, redirect_uri |-> NoneSeq, resource |-> NoneSeq,
   authorization |-> <<>>, session_id |-> None]
\* the address of HTTPServer(('localhost', 8080), ...) at line 359, written as
\* the netloc of a URL is
ListenAddress == <<"localhost", ":", "8080">>
\* no socket is bound
Unbound == <<>>

\* the HTTPServer object of line 359 with the fields of lines 360-362 and the
\* address its socket is bound to.  Two history fields: code_state is the
\* `state` parameter of the callback that wrote the auth_code the server
\* holds; late tells that the first callback with a code or an error came
\* more than CALLBACK_TIMEOUT after the start of the wait
NoServer ==
  [auth_code |-> None, auth_error |-> None, received_state |-> None, serving |-> FALSE,
   code_state |-> None, bound |-> Unbound, late |-> FALSE]
\* the server once line 359 has bound it and line 367 has started its thread
NewServer == [NoServer EXCEPT !.serving = TRUE, !.bound = ListenAddress]
ListenerIdle == [busy |-> FALSE, state |-> None]

Ev(name) == [ev |-> name, arg |-> NoneSeq]
EvA(name, a) == [ev |-> name, arg |-> a]

\* nothing has been sent or received yet; the history is kept (track) only in
\* the specifications whose properties read it: the authorization requests
\* sent, and the mcp-session-id header most recently received in a response
NothingSent(track) == [track |-> track, requests |-> {}, session |-> None]

\* DatadogMCPClient.__init__ for the URL url in one of the environments envs,
\* all but the handler's own fields, and the state of a task outside any call: the tasks of `callers` make the
\* calls ("idle"), the others make none ("off").
InitAround(url, envs, callers, track) ==
  /\ given_url = url
  /\ env \in envs
  /\ sent = NothingSent(track)
  /\ nconstruct = 0
  /\ now = 1
  /\ http_client = [ready |-> FALSE, Authorization |-> <<>>]
  /\ session_id = None
  /\ pc = [t \in Tasks |-> IF t \in callers THEN "idle" ELSE "off"]
  /\ op = [t \in Tasks |-> "none"]
  /\ log = [t \in Tasks |-> <<>>]
  /\ ret = [t \in Tasks |-> Pending]
  /\ cres = [t \in Tasks |-> Pending]
  /\ req = [t \in Tasks |-> NoReq]
  /\ servers = [t \in Tasks |-> <<>>]
  /\ server = [t \in Tasks |-> NoServer]
  /\ lis = [t \in Tasks |-> ListenerIdle]
  /\ start_time = [t \in Tasks |-> 0]

\* ... and MCPDatadogOAuthHandler.__init__
InitState(url, envs, callers, track) ==
  /\ InitAround(url, envs, callers, track)
  /\ h = NewHandler(given_url, 1)

\* one caller, the default redirect URI
InitWith(url) == InitState(url, EnvChoices, {1}, FALSE)

\* DatadogMCPClient() with its default URL
Init == InitWith(CanonicalUrl)

\* ------------------------------------------------- control-flow helpers

\* the coroutine of task t suspends at `at`, awaiting the response of rq
Step(t, kind, at, lg, rq) ==
  /\ pc' = [pc EXCEPT ![t] = at]
  /\ op' = [op EXCEPT ![t] = kind]
  /\ log' = [log EXCEPT ![t] = lg]
  /\ ret' = [ret EXCEPT ![t] = Pending]
  /\ cres' = [cres EXCEPT ![t] = Pending]
  /\ req' = [req EXCEPT ![t] = rq]
  /\ UNCHANGED http_client

\* f'Bearer {access_token}'
Bearer(tok) == <<"Bearer ", tok>>

\* the POST of send_mcp_request / send_notification (client lines 73-85, 179-189)
McpRequest(auth) ==
  [NoReq EXCEPT !.kind = "mcp", !.url = given_url, !.authorization = auth,
                !.session_id = IF Truthy(session_id) THEN session_id ELSE None]

\* faulty variant of NotifyHeader: the notification goes out with whatever
\* header the http client already carries
NotifyHeaderStale(tok) == http_client.Authorization

\* send_notification lines 166-167: the header is set from the token returned
NotifyHeader(tok) == Bearer(tok)

\* get_valid_token returns tok to the call `kind` of task t, which goes on
\* without suspending: initialize builds the http client (client lines 24-36),
\* send_mcp_request and send_notification set the header and post.
Return(t, kind, lg, tok) ==
  /\ op' = [op EXCEPT ![t] = kind]
  /\ ret' = [ret EXCEPT ![t] = [kind |-> "token", val |-> tok]]
  /\ CASE kind = "gvt" ->
            /\ pc' = [pc EXCEPT ![t] = "idle"]
            /\ log' = [log EXCEPT ![t] = lg]
            /\ req' = [req EXCEPT ![t] = NoReq]
            /\ cres' = [cres EXCEPT ![t] = [kind |-> "ok", val |-> None]]
            /\ UNCHANGED http_client
       [] kind = "initialize" ->
            /\ pc' = [pc EXCEPT ![t] = "idle"]
            /\ log' = [log EXCEPT ![t] = lg]
            /\ req' = [req EXCEPT ![t] = NoReq]
            /\ cres' = [cres EXCEPT ![t] = [kind |-> "ok", val |-> None]]
            /\ http_client' = [ready |-> TRUE, Authorization |-> Bearer(tok)]
       [] kind = "request" ->
            /\ pc' = [pc EXCEPT ![t] = "mcp_wait"]
            /\ log' = [log EXCEPT ![t] = Append(lg, Ev("mcp_post"))]
            /\ http_client' = [http_client EXCEPT !.Authorization = Bearer(tok)]
            /\ req' = [req EXCEPT ![t] = McpRequest(Bearer(tok))]
            /\ cres' = [cres EXCEPT ![t] = Pending]
       [] kind = "notify" ->
            /\ pc' = [pc EXCEPT ![t] = "mcp_wait"]
            /\ log' = [log EXCEPT ![t] = Append(lg, Ev("mcp_post"))]
            /\ http_client' = [http_client EXCEPT !.Authorization = NotifyHeader(tok)]
            /\ req' = [req EXCEPT ![t] = McpRequest(NotifyHeader(tok))]
            /\ cres' = [cres EXCEPT ![t] = Pending]

\* get_valid_token raises err: the exception leaves the client call too
\* (client lines 24, 53 and 166 are outside any try)
Raise(t, kind, lg, err) ==
  /\ pc' = [pc EXCEPT ![t] = "idle"]
  /\ op' = [op EXCEPT ![t] = kind]
  /\ log' = [log EXCEPT ![t] = lg]
  /\ ret' = [ret EXCEPT ![t] = [kind |-> "error", val |-> err]]
  /\ cres' = [cres EXCEPT ![t] = [kind |-> "auth_error", val |-> err]]
  /\ req' = [req EXCEPT ![t] = NoReq]
  /\ UNCHANGED http_client

Error(err) == [kind |-> "error", val |-> err]

\* faulty variant of Leave: the shutdown follows the return of the exchange
\* only, as without the finally clause
LeaveWithoutFinally(t, lg, outcome) ==
  IF outcome.kind = "token"
  THEN /\ server' = [server EXCEPT ![t] = NoServer]
       /\ lis' = [lis EXCEPT ![t] = ListenerIdle]
       /\ Return(t, op[t], Append(lg, Ev("shutdown")), outcome.val)
  ELSE /\ UNCHANGED <<server, lis>>
       /\ Raise(t, op[t], lg, outcome.val)

\* _perform_authorization_flow leaves its try block with `outcome` and the
\* finally clause runs (lines 400-401).  server.shutdown() blocks the event
\* loop until serve_forever has finished the request it is handling; what
\* that request still writes goes to a server object nothing reads again, so
\* the listener is stopped and the result handed to the caller in one step.
Leave(t, lg, outcome) ==
  /\ server' = [server EXCEPT ![t] = NoServer]
  /\ lis' = [lis EXCEPT ![t] = ListenerIdle]
  /\ IF outcome.kind = "token"
     THEN Return(t, op[t], Append(lg, Ev("shutdown")), outcome.val)
     ELSE Raise(t, op[t], Append(lg, Ev("shutdown")), outcome.val)

\* ------------------------------------------------------- get_valid_token

\* start_mcp_oauth_flow up to its first await (the probe of discovery)
StartFlow(t, kind, lg) ==
  Step(t, kind, "discover", Append(lg, Ev("flow_start")), NoReq)

\* the form data of refresh_access_token (lines 452-461)
RefreshRequest ==
  [NoReq EXCEPT !.kind = "token",
                !.url = h.auth_server_metadata.token_endpoint,
                !.grant_type = "refresh_token",
                !.client_id = h.client_id,
                !.refresh_token = h.refresh_token,
                !.resource = h.resource_uri,
                !.client_secret = IF Truthy(h.client_secret) THEN h.client_secret ELSE None]

\* refresh_access_token can send its request (lines 442-450 raise otherwise)
CanRefresh ==
  /\ Truthy(h.refresh_token)
  /\ h.auth_server_metadata.present
  /\ h.auth_server_metadata.token_endpoint # NoneSeq

\* faulty variant of NeedsRefresh: the comparison turned around
NeedsRefreshInverted ==
  h.token_expires_at # NoneTime /\ now < h.token_expires_at - REFRESH_MARGIN

\* the token is expired or within the five-minute buffer (line 486)
NeedsRefresh ==
  h.token_expires_at # NoneTime /\ now > h.token_expires_at - REFRESH_MARGIN

\* get_valid_token, lines 482-496, up to its first await or its return
GetValidToken(t, kind, lg) ==
  IF ~Truthy(h.access_token) THEN StartFlow(t, kind, lg)
  ELSE IF NeedsRefresh THEN
    IF Truthy(h.refresh_token) THEN
      IF CanRefresh
      THEN Step(t, kind, "refresh_wait", Append(lg, Ev("refresh_post")), RefreshRequest)
      ELSE StartFlow(t, kind, Append(lg, Ev("refresh_failed")))
    ELSE StartFlow(t, kind, lg)
  ELSE Return(t, kind, lg, h.access_token)

\* A caller invokes get_valid_token directly, or through
\* DatadogMCPClient.initialize / send_mcp_request / send_notification.
Call(t, kind) ==
  /\ pc[t] = "idle"
  /\ kind \in {"request", "notify"} => http_client.ready
  /\ GetValidToken(t, kind, <<Ev("get_valid_token")>>)
  /\ UNCHANGED <<h, session_id, flowVars, worldVars>>

\* send_mcp_request / send_notification before initialize (client lines 49-50, 162-163)
CallNotInitialized(t, kind) ==
  /\ pc[t] = "idle"
  /\ kind \in {"request", "notify"}
  /\ ~http_client.ready
  /\ op' = [op EXCEPT ![t] = kind]
  /\ log' = [log EXCEPT ![t] = <<>>]
  /\ ret' = [ret EXCEPT ![t] = Pending]
  /\ cres' = [cres EXCEPT ![t] = [kind |-> "not_initialized", val |-> None]]
  /\ UNCHANGED <<pc, req, http_client, h, session_id, flowVars, worldVars>>

\* faulty variant of RefreshedTokens: the refresh token is taken with
\* token_data.get('refresh_token'), as the exchange does (line 431)
RefreshedTokensDropsOld(resp) ==
  [h EXCEPT !.access_token = resp.access_token,
            !.refresh_token = IF resp.refresh_token # Absent THEN resp.refresh_token ELSE None,
            !.token_expires_at = now + ExpiresIn(resp)]

\* what a successful refresh stores (lines 467-476)
RefreshedTokens(resp) ==
  [h EXCEPT !.access_token = resp.access_token,
            !.refresh_token = IF resp.refresh_token # Absent THEN resp.refresh_token ELSE @,
            !.token_expires_at = now + ExpiresIn(resp)]

\* faulty variant of RefreshResponse: get_valid_token without the try/except
\* around refresh_access_token, so a failed refresh reaches the caller
RefreshResponsePropagates(t) ==
  /\ pc[t] = "refresh_wait"
  /\ \E resp \in TokenResponses :
       IF resp.kind = "ok" /\ resp.access_token # Absent
       THEN /\ h' = RefreshedTokens(resp)
            /\ Return(t, op[t],
                      Append(log[t], EvA("refresh_ok", <<resp.access_token, resp.refresh_token,
                                                         ExpiresIn(resp), RawExpiresIn(resp)>>)),
                      h'.access_token)
       ELSE /\ h' = h
            /\ Raise(t, op[t], Append(log[t], Ev("refresh_failed")), "REFRESH_FAILED")
  /\ UNCHANGED <<session_id, flowVars, worldVars>>

\* the response to the refresh POST arrives (lines 464-478, 490-492)
RefreshResponse(t) ==
  /\ pc[t] = "refresh_wait"
  /\ \E resp \in TokenResponses :
       IF resp.kind = "ok" /\ resp.access_token # Absent
       THEN /\ h' = RefreshedTokens(resp)
            /\ Return(t, op[t],
                      Append(log[t], EvA("refresh_ok", <<resp.access_token, resp.refresh_token,
                                                         ExpiresIn(resp), RawExpiresIn(resp)>>)),
                      h'.access_token)
       ELSE /\ h' = h
            /\ StartFlow(t, op[t], Append(log[t], Ev("refresh_failed")))
  /\ UNCHANGED <<session_id, flowVars, worldVars>>

\* ------------------------------------------------- start_mcp_oauth_flow

\* the lists a protected-resource metadata document may carry
\* (metadata.get('authorization_servers', []))
ServerLists == {<<>>, <<ExtIssuer>>, <<MainIssuer>>, <<ExtIssuer, MainIssuer>>}

\* discover_authorization_servers: what it returns when the probe answers
\* `probe`, the as_uri document `asuri` (ok, list) and the first well-known
\* URL that answers 200 with JSON is number k (0: none) with list wk.
DiscoverServers(url, probe, asuri_ok, asuri_list, k, wk) ==
  IF probe = "network_error" THEN FallbackServers(url)
  ELSE IF probe = "401_as_uri" THEN
    IF asuri_ok THEN asuri_list ELSE FallbackServers(url)
  ELSE IF k > 0 THEN wk
  ELSE FallbackServers(url)

\* Step 1 of start_mcp_oauth_flow (lines 318-322)
Discover(t) ==
  /\ pc[t] = "discover"
  /\ \E probe \in {"network_error", "401_as_uri", "other"},
        asuri_ok \in BOOLEAN, lst \in ServerLists, k \in 0..3 :
       LET found == DiscoverServers(h.mcp_server_url, probe, asuri_ok, lst, k, lst)
           lg == Append(log[t], Ev("discover"))
       IN IF found = <<>>
          THEN /\ UNCHANGED servers
               /\ Raise(t, op[t], lg, "NO_SERVERS")
          ELSE /\ servers' = [servers EXCEPT ![t] = found]
               /\ Step(t, op[t], "metadata", lg, NoReq)
  /\ UNCHANGED <<h, session_id, server, lis, start_time, worldVars>>

\* ---- discover_authorization_servers request by request
\* what a GET of a metadata document may give: no response, a status other
\* than 200 (an error status for the as_uri document), a 200 whose body is no
\* JSON, a 200 whose JSON is no object, a 200 with a JSON object
DocumentOutcomes == {"network_error", "non_200", "bad_json", "non_object", "ok"}
\* what the probe of line 110 may give: no response, a 401 whose header has
\* an as_uri, a 401 whose as_uri is empty, a 401 without one, another status
ProbeOutcomes == {"network_error", "401_as_uri", "401_empty_as_uri", "401_plain", "other"}
\* the lists of the request-by-request discovery: those above and two more
\* issuers, one of them already ending in /authorize
ServerListsTraced == ServerLists \cup {<<AuthorizeIssuer>>, <<ExtIssuer, AuthorizeIssuer>>}
\* the three metadata_urls of lines 130-134, in order
WellKnownNames == <<"well_known_1", "well_known_2", "well_known_3">>

\* the loop of lines 136-144 under the outcomes wk: an exception of the GET
\* or of the body (lines 138-142) is caught at line 143 and the loop goes on
WellKnownLoop(wk, lst) ==
  LET hit == {i \in 1..Len(WellKnownNames) : wk[i] = "ok"}
      first == IF hit = {} THEN 0 ELSE CHOOSE i \in hit : \A j \in hit : i <= j
  IN [found |-> first # 0,
      servers |-> IF first # 0 THEN lst ELSE <<>>,
      trace |-> SubSeq(WellKnownNames, 1, IF first # 0 THEN first ELSE Len(WellKnownNames))]

\* discover_authorization_servers (lines 104-165): whether it raises, what it
\* returns and which requests it makes, in order ("fallback": the list of
\* lines 149-165 is built).  lst is the authorization_servers member of the
\* object read (<<>>: empty or missing).  With guarded = FALSE the try of
\* line 108 and the except of line 146 are taken away.
DiscoverBody(url, probe, asuri, wk, lst, guarded) ==
  LET Fallback(tr) ==
        [raised |-> FALSE, servers |-> FallbackServers(url), trace |-> Append(tr, "fallback")]
      Caught(tr) ==
        IF guarded THEN Fallback(tr) ELSE [raised |-> TRUE, servers |-> <<>>, trace |-> tr]
      loop == WellKnownLoop(wk, lst)
  IN IF probe = "network_error" THEN Caught(<<"probe">>)
     ELSE IF probe = "401_as_uri" THEN
       IF asuri = "ok"
       THEN [raised |-> FALSE, servers |-> lst, trace |-> <<"probe", "as_uri">>]
       ELSE Caught(<<"probe", "as_uri">>)
     ELSE IF loop.found
       THEN [raised |-> FALSE, servers |-> loop.servers, trace |-> <<"probe">> \o loop.trace]
       ELSE Fallback(<<"probe">> \o loop.trace)

\* faulty variant of discover_authorization_servers: no try around step 1
discover_authorization_servers_unguarded(url, probe, asuri, wk, lst) ==
  DiscoverBody(url, probe, asuri, wk, lst, FALSE)

discover_authorization_servers(url, probe, asuri, wk, lst) ==
  DiscoverBody(url, probe, asuri, wk, lst, TRUE)

\* Step 1 of start_mcp_oauth_flow (lines 318-322) with every outcome of every
\* request of the discovery, and the requests made kept in the log
DiscoverTraced(t) ==
  /\ pc[t] = "discover"
  /\ \E probe \in ProbeOutcomes, asuri \in DocumentOutcomes,
        wk \in [1..Len(WellKnownNames) -> DocumentOutcomes], lst \in ServerListsTraced :
       LET run == discover_authorization_servers(h.mcp_server_url, probe, asuri, wk, lst)
           lg == Append(log[t], EvA("discover", run.trace))
       IN IF run.raised
          THEN /\ UNCHANGED servers
               /\ Raise(t, op[t], lg, "DISCOVERY_RAISED")
          ELSE IF run.servers = <<>>
          THEN /\ UNCHANGED servers
               /\ Raise(t, op[t], lg, "NO_SERVERS")
          ELSE /\ servers' = [servers EXCEPT ![t] = run.servers]
               /\ Step(t, op[t], "metadata", lg, NoReq)
  /\ UNCHANGED <<h, session_id, server, lis, start_time, worldVars>>

\* faulty variant of Metadata: the loop without its break, so that the
\* candidates after a successful one are contacted too
MetadataWithoutBreak(t) ==
  /\ pc[t] = "metadata"
  /\ servers[t] # <<>>
  /\ \E outcome \in MetadataOutcomes :
       LET issuer == Head(servers[t])
           found == DiscoverMetadata(issuer, outcome)
           lg == Append(log[t], EvA("metadata_get", issuer))
       IN IF found.present
          THEN /\ h' = [h EXCEPT !.auth_server_metadata = found,
                                 !.selected_auth_server = issuer]
               /\ servers' = [servers EXCEPT ![t] = Tail(@)]
               /\ Step(t, op[t], IF Tail(servers[t]) = <<>> THEN "register" ELSE "metadata",
                       lg, NoReq)
          ELSE /\ h' = h
               /\ servers' = [servers EXCEPT ![t] = Tail(@)]
               /\ IF Tail(servers[t]) = <<>>
                  THEN Raise(t, op[t], lg, "DISCOVERY_FAILED")
                  ELSE Step(t, op[t], "metadata", lg, NoReq)
  /\ UNCHANGED <<session_id, server, lis, start_time, worldVars>>

\* Step 2 of start_mcp_oauth_flow (lines 326-337): one turn of the loop over
\* the candidates.  discover_authorization_server_metadata is awaited for the
\* next candidate; when it returns the loop is left (break), when it raises
\* the loop goes on, and past the last candidate the else clause raises.
Metadata(t) ==
  /\ pc[t] = "metadata"
  /\ servers[t] # <<>>
  /\ \E outcome \in MetadataOutcomes :
       LET issuer == Head(servers[t])
           found == DiscoverMetadata(issuer, outcome)
           lg == Append(log[t], EvA("metadata_get", issuer))
       IN IF found.present
          THEN /\ h' = [h EXCEPT !.auth_server_metadata = found,
                                 !.selected_auth_server = issuer]
               /\ servers' = [servers EXCEPT ![t] = <<>>]
               /\ Step(t, op[t], "register", lg, NoReq)
          ELSE /\ h' = h
               /\ servers' = [servers EXCEPT ![t] = Tail(@)]
               /\ IF Tail(servers[t]) = <<>>
                  THEN Raise(t, op[t], lg, "DISCOVERY_FAILED")
                  ELSE Step(t, op[t], "metadata", lg, NoReq)
  /\ UNCHANGED <<session_id, server, lis, start_time, worldVars>>

\* the answers to the registration POST: failure (network error, error
\* status, no client_id in the body) or a client_id with or without a secret
RegistrationOutcomes ==
  {[ok |-> FALSE, client_id |-> None, client_secret |-> None],
   [ok |-> TRUE, client_id |-> "dyn1", client_secret |-> "dsec"]}

\* register_dynamic_client posts only with a registration_endpoint (lines 252-258)
CanRegister ==
  h.auth_server_metadata.present /\ h.auth_server_metadata.registration_endpoint # NoneSeq

\* faulty variant of Register: the fallback keeps a client_id the handler
\* already holds and reads the environment only when it holds none
RegisterKeepsClientId(t) ==
  /\ pc[t] = "register"
  /\ \E out \in RegistrationOutcomes :
       LET lg == IF CanRegister THEN Append(log[t], Ev("register_post")) ELSE log[t]
       IN IF CanRegister /\ out.ok
          THEN /\ h' = [h EXCEPT !.client_id = out.client_id,
                                 !.client_secret = out.client_secret]
               /\ Step(t, op[t], "authorize", Append(lg, Ev("registered")), NoReq)
          ELSE /\ h' = [h EXCEPT !.client_id = IF Truthy(@) THEN @ ELSE env.client_id,
                                 !.client_secret = env.client_secret]
               /\ IF Truthy(env.client_id)
                  THEN Step(t, op[t], "authorize", Append(lg, Ev("registration_fallback")), NoReq)
                  ELSE Raise(t, op[t], lg, "REGISTRATION_FALLBACK_EXHAUSTED")
  /\ UNCHANGED <<session_id, flowVars, worldVars>>

\* faulty variant of Register: without the check of lines 348-349 the flow
\* goes on with whatever the environment gave
RegisterWithoutCheck(t) ==
  /\ pc[t] = "register"
  /\ \E out \in RegistrationOutcomes :
       LET lg == IF CanRegister THEN Append(log[t], Ev("register_post")) ELSE log[t]
       IN IF CanRegister /\ out.ok
          THEN /\ h' = [h EXCEPT !.client_id = out.client_id,
                                 !.client_secret = out.client_secret]
               /\ Step(t, op[t], "authorize", Append(lg, Ev("registered")), NoReq)
          ELSE /\ h' = [h EXCEPT !.client_id = env.client_id,
                                 !.client_secret = env.client_secret]
               /\ Step(t, op[t], "authorize", Append(lg, Ev("registration_fallback")), NoReq)
  /\ UNCHANGED <<session_id, flowVars, worldVars>>

\* Step 3 of start_mcp_oauth_flow (lines 339-350)
Register(t) ==
  /\ pc[t] = "register"
  /\ \E out \in RegistrationOutcomes :
       LET lg == IF CanRegister THEN Append(log[t], Ev("register_post")) ELSE log[t]
       IN IF CanRegister /\ out.ok
          THEN /\ h' = [h EXCEPT !.client_id = out.client_id,
                                 !.client_secret = out.client_secret]
               /\ Step(t, op[t], "authorize", Append(lg, Ev("registered")), NoReq)
          ELSE /\ h' = [h EXCEPT !.client_id = env.client_id,
                                 !.client_secret = env.client_secret]
               /\ IF Truthy(env.client_id)
                  THEN Step(t, op[t], "authorize", Append(lg, Ev("registration_fallback")), NoReq)
                  ELSE Raise(t, op[t], lg, "REGISTRATION_FALLBACK_EXHAUSTED")
  /\ UNCHANGED <<session_id, flowVars, worldVars>>

\* --------------------------------------------- _perform_authorization_flow

\* get_authorization_url can build the URL (lines 294-299 raise otherwise)
CanBuildUrl ==
  /\ h.auth_server_metadata.present
  /\ Truthy(h.client_id)
  /\ h.auth_server_metadata.authorization_endpoint # NoneSeq

\* faulty variant of ResourceParam: the URL is "canonicalised" with rstrip('/')
ResourceParamNormalized ==
  IF h.resource_uri # <<>> /\ h.resource_uri[Len(h.resource_uri)] = "/"
  THEN SubSeq(h.resource_uri, 1, Len(h.resource_uri) - 1)
  ELSE h.resource_uri

\* the value get_authorization_url sends as `resource` (line 308)
ResourceParam == h.resource_uri

\* faulty variant of get_authorization_url: PKCE is sent only to a server
\* whose metadata advertises S256
get_authorization_url_pkce_if_advertised ==
  h.auth_server_metadata.authorization_endpoint \o <<"?">> \o
  urlencode(<< <<<<"response_type">>, <<"code">>>>,
               <<<<"client_id">>, <<h.client_id>>>>,
               <<<<"redirect_uri">>, h.redirect_uri>> >>
            \o (IF h.auth_server_metadata.pkce = "S256"
                THEN << <<<<"code_challenge">>, h.code_challenge>>,
                        <<<<"code_challenge_method">>, <<"S256">>>> >>
                ELSE <<>>)
            \o << <<<<"resource">>, ResourceParam>>,
                  <<<<"state">>, <<h.state>>>> >>)

\* get_authorization_url, lines 301-312
get_authorization_url ==
  h.auth_server_metadata.authorization_endpoint \o <<"?">> \o
  urlencode(<< <<<<"response_type">>, <<"code">>>>,
               <<<<"client_id">>, <<h.client_id>>>>,
               <<<<"redirect_uri">>, h.redirect_uri>>,
               <<<<"code_challenge">>, h.code_challenge>>,
               <<<<"code_challenge_method">>, <<"S256">>>>,
               <<<<"resource">>, ResourceParam>>,
               <<<<"state">>, <<h.state>>>> >>)

\* what an authorization request carries as state and as code_challenge
SentBy(url) ==
  <<QueryParam(QueryOf(url), <<"state">>), QueryParam(QueryOf(url), <<"code_challenge">>)>>

\* The port of line 359 is held by the listener of another flow of this
\* process.  HTTPServer sets SO_REUSEADDR (allow_reuse_address): where that
\* option lets a second socket bind a listening port the constructor
\* succeeds, elsewhere it raises OSError.
PortTaken(t) == \E u \in Tasks \ {t} : server[u].bound = ListenAddress

\* lines 358-378: the listener is created and started, the URL is built and
\* opened in the browser, the wait begins.  Line 359 is outside the try
\* block: an OSError of the constructor leaves the flow without a shutdown.
Authorize(t) ==
  /\ pc[t] = "authorize"
  /\ \E bind_ok \in IF PortTaken(t) THEN BOOLEAN ELSE {TRUE} :
       IF ~bind_ok
       THEN /\ Raise(t, op[t], log[t], "BIND_FAILED")
            /\ UNCHANGED <<server, lis, start_time, sent>>
       ELSE IF CanBuildUrl
       THEN /\ lis' = [lis EXCEPT ![t] = ListenerIdle]
            /\ server' = [server EXCEPT ![t] = NewServer]
            /\ start_time' = [start_time EXCEPT ![t] = now]
            /\ sent' = IF sent.track
                       THEN [sent EXCEPT !.requests = @ \cup {SentBy(get_authorization_url)}]
                       ELSE sent
            /\ Step(t, op[t], "poll",
                    log[t] \o <<Ev("listen"), EvA("browser", get_authorization_url)>>, NoReq)
       ELSE /\ UNCHANGED <<start_time, sent>>
            /\ Leave(t, Append(log[t], Ev("listen")), Error("AUTHZ_URL"))
  /\ UNCHANGED <<h, session_id, servers, env, given_url, nconstruct, now>>

\* the listener has answered "Invalid callback" during this call
HasInvalid(lg) == \E i \in 1..Len(lg) : lg[i].ev = "invalid_callback"

\* the callbacks a browser (or anyone who can reach the port) may deliver
Codes == {"c1", "c2"}
CallbackStates == {h.state, "forged", None}

\* The coordinator still has a field of the server to read (lines 380-398).
\* After line 398 nothing reads them any more: a callback served between
\* then and the shutdown changes nothing the program can observe.
Reading(t) == pc[t] \in {"poll", "check_error", "check_state", "read_code"}

\* history: the callback now served is the first with a code or an error and
\* comes more than CALLBACK_TIMEOUT after start_time (line 378)
ArrivesLate(t) ==
  IF server[t].auth_code = None /\ server[t].auth_error = None
  THEN pc[t] = "poll" /\ now - start_time[t] > CALLBACK_TIMEOUT
  ELSE server[t].late

\* OAuthCallbackHandler.do_GET with a code: the first write (line 33)
CallbackCode(t) ==
  /\ server[t].serving
  /\ Reading(t)
  /\ ~lis[t].busy
  /\ \E c \in Codes, s \in CallbackStates :
       /\ server' = [server EXCEPT ![t].auth_code = c, ![t].code_state = s,
                                   ![t].late = ArrivesLate(t)]
       /\ lis' = [lis EXCEPT ![t] = [busy |-> TRUE, state |-> s]]
  /\ UNCHANGED <<h, session_id, callVars, servers, start_time, worldVars>>

\* OAuthCallbackHandler.do_GET with a code: the second write (line 34)
CallbackState(t) ==
  /\ lis[t].busy
  /\ Reading(t)
  /\ server' = [server EXCEPT ![t].received_state = lis[t].state]
  /\ lis' = [lis EXCEPT ![t].busy = FALSE, ![t].state = None]
  /\ UNCHANGED <<h, session_id, callVars, servers, start_time, worldVars>>

\* OAuthCallbackHandler.do_GET with an error (line 40)
CallbackError(t) ==
  /\ server[t].serving
  /\ Reading(t)
  /\ ~lis[t].busy
  /\ server' = [server EXCEPT ![t].auth_error = "access_denied",
                              ![t].late = ArrivesLate(t)]
  /\ UNCHANGED <<h, session_id, callVars, servers, lis, start_time, worldVars>>

\* faulty variant of CallbackInvalid: a request without code and error is
\* recorded as an error
CallbackInvalidAsError(t) ==
  /\ server[t].serving
  /\ Reading(t)
  /\ ~lis[t].busy
  /\ ~HasInvalid(log[t])
  /\ log' = [log EXCEPT ![t] = Append(@, Ev("invalid_callback"))]
  /\ server' = [server EXCEPT ![t].auth_error = "invalid_request",
                              ![t].late = ArrivesLate(t)]
  /\ UNCHANGED <<h, session_id, pc, op, ret, cres, req, http_client, servers, lis,
                 start_time, worldVars>>

\* OAuthCallbackHandler.do_GET with neither code nor error (lines 51-55): the
\* 400 answer "Invalid callback" is all it does.  The answer is recorded, once
\* per call, so that the request can be told from no request.
CallbackInvalid(t) ==
  /\ server[t].serving
  /\ Reading(t)
  /\ ~lis[t].busy
  /\ ~HasInvalid(log[t])
  /\ log' = [log EXCEPT ![t] = Append(@, Ev("invalid_callback"))]
  /\ UNCHANGED <<h, session_id, pc, op, ret, cres, req, http_client, flowVars, worldVars>>

\* faulty variant of Poll: the wait has no timeout
PollForever(t) ==
  /\ pc[t] = "poll"
  /\ IF server[t].auth_code = None /\ server[t].auth_error = None
     THEN UNCHANGED <<callVars, start_time, server, lis>>
     ELSE /\ Step(t, op[t], "check_error", log[t], NoReq)
          /\ start_time' = [start_time EXCEPT ![t] = 0]
          /\ UNCHANGED <<server, lis>>
  /\ UNCHANGED <<h, session_id, servers, worldVars>>

\* faulty variant of Poll: when the time is up the loop is left as if a
\* callback had come
PollGivesUp(t) ==
  /\ pc[t] = "poll"
  /\ IF server[t].auth_code = None /\ server[t].auth_error = None
        /\ now - start_time[t] <= CALLBACK_TIMEOUT
     THEN UNCHANGED <<callVars, start_time, server, lis>>
     ELSE /\ Step(t, op[t], "check_error", log[t], NoReq)
          /\ start_time' = [start_time EXCEPT ![t] = 0]
          /\ UNCHANGED <<server, lis>>
  /\ UNCHANGED <<h, session_id, servers, worldVars>>

\* One turn of the wait loop (lines 380-383).  The two reads of the loop
\* condition are taken together: the fields only ever change from None to a
\* value, so a later read of None can be moved back to the earlier one.
Poll(t) ==
  /\ pc[t] = "poll"
  /\ IF server[t].auth_code = None /\ server[t].auth_error = None
     THEN IF now - start_time[t] > CALLBACK_TIMEOUT
          THEN /\ Leave(t, log[t], Error("TIMEOUT"))
               /\ start_time' = [start_time EXCEPT ![t] = 0]
          ELSE UNCHANGED <<callVars, start_time, server, lis>>
     ELSE /\ Step(t, op[t], "check_error", log[t], NoReq)
          /\ start_time' = [start_time EXCEPT ![t] = 0]
          /\ UNCHANGED <<server, lis>>
  /\ UNCHANGED <<h, session_id, servers, worldVars>>

\* faulty variant of CheckError: an error is acted on only when no code came
CheckErrorUnlessCode(t) ==
  /\ pc[t] = "check_error"
  /\ IF Truthy(server[t].auth_error) /\ server[t].auth_code = None
     THEN Leave(t, log[t], Error("AUTH_DENIED"))
     ELSE Step(t, op[t], "check_state", log[t], NoReq) /\ UNCHANGED <<server, lis>>
  /\ UNCHANGED <<h, session_id, servers, start_time, worldVars>>

\* lines 385-391
CheckError(t) ==
  /\ pc[t] = "check_error"
  /\ IF Truthy(server[t].auth_error)
     THEN Leave(t, log[t], Error("AUTH_DENIED"))
     ELSE Step(t, op[t], "check_state", log[t], NoReq) /\ UNCHANGED <<server, lis>>
  /\ UNCHANGED <<h, session_id, servers, start_time, worldVars>>

\* the comparison of line 394
StateMismatch(received) == received # h.state

\* lines 393-395
CheckState(t) ==
  /\ pc[t] = "check_state"
  /\ LET lg == Append(log[t], EvA("state_read", <<server[t].received_state>>))
     IN IF StateMismatch(server[t].received_state)
        THEN Leave(t, lg, Error("STATE_MISMATCH"))
        ELSE Step(t, op[t], "read_code", lg, NoReq) /\ UNCHANGED <<server, lis>>
  /\ UNCHANGED <<h, session_id, servers, start_time, worldVars>>

\* the form data of _exchange_code_for_token (lines 412-423)
ExchangeRequest(code) ==
  [NoReq EXCEPT !.kind = "token",
                !.url = h.auth_server_metadata.token_endpoint,
                !.grant_type = "authorization_code",
                !.client_id = h.client_id,
                !.code = code,
                !.redirect_uri = h.redirect_uri,
                !.code_verifier = h.code_verifier,
                !.resource = h.resource_uri,
                !.client_secret = IF Truthy(h.client_secret) THEN h.client_secret ELSE None]

\* line 398 and _exchange_code_for_token up to its POST (lines 405-426); the
\* fields of the server have been read for the last time
ReadCode(t) ==
  /\ pc[t] = "read_code"
  /\ IF h.auth_server_metadata.present /\ h.auth_server_metadata.token_endpoint # NoneSeq
     THEN /\ Step(t, op[t], "exchange_wait",
                  Append(log[t], EvA("exchange_post",
                                     <<server[t].auth_code, server[t].code_state,
                                       server[t].late>>)),
                  ExchangeRequest(server[t].auth_code))
          /\ server' = [server EXCEPT ![t] = NewServer]
          /\ lis' = [lis EXCEPT ![t] = ListenerIdle]
     ELSE Leave(t, log[t], Error("EXCHANGE_FAILED"))
  /\ UNCHANGED <<h, session_id, servers, start_time, worldVars>>

\* faulty variant of ExchangedTokens: the lifetime is stored as it came, not
\* as an instant
ExchangedTokensRelative(resp) ==
  [h EXCEPT !.access_token = resp.access_token,
            !.refresh_token = IF resp.refresh_token # Absent THEN resp.refresh_token ELSE None,
            !.token_expires_at = ExpiresIn(resp)]

\* what a successful exchange stores (lines 429-435)
ExchangedTokens(resp) ==
  [h EXCEPT !.access_token = resp.access_token,
            !.refresh_token = IF resp.refresh_token # Absent THEN resp.refresh_token ELSE None,
            !.token_expires_at = now + ExpiresIn(resp)]

\* faulty variant of ExchangeResponse: a failed exchange clears the tokens
ExchangeResponseClears(t) ==
  /\ pc[t] = "exchange_wait"
  /\ \E resp \in TokenResponses :
       IF resp.kind = "ok" /\ resp.access_token # Absent
       THEN /\ h' = ExchangedTokens(resp)
            /\ Leave(t, Append(log[t], EvA("token_exchanged", RawExpiresIn(resp))),
                     [kind |-> "token", val |-> h'.access_token])
       ELSE /\ h' = [h EXCEPT !.access_token = None, !.refresh_token = None,
                               !.token_expires_at = NoneTime]
            /\ Leave(t, log[t], Error("EXCHANGE_FAILED"))
  /\ UNCHANGED <<session_id, servers, start_time, worldVars>>

\* the response to the exchange POST arrives (lines 426-438)
ExchangeResponse(t) ==
  /\ pc[t] = "exchange_wait"
  /\ \E resp \in TokenResponses :
       IF resp.kind = "ok" /\ resp.access_token # Absent
       THEN /\ h' = ExchangedTokens(resp)
            /\ Leave(t, Append(log[t], EvA("token_exchanged", RawExpiresIn(resp))),
                     [kind |-> "token", val |-> h'.access_token])
       ELSE /\ h' = h
            /\ Leave(t, log[t], Error("EXCHANGE_FAILED"))
  /\ UNCHANGED <<session_id, servers, start_time, worldVars>>

\* ------------------------------------------------------ DatadogMCPClient

SessionIds == {"sid1", "sid2"}
\* the answers of the protected resource to a POST
McpResponses ==
  [kind : {"network_error"}, status : {"none"}, sid : {None}, rpc_error : {FALSE}]
  \cup
  [kind : {"response"}, status : {"200"}, sid : SessionIds \cup {None}, rpc_error : BOOLEAN]
  \cup
  [kind : {"response"}, status : {"401", "500"}, sid : SessionIds \cup {None},
   rpc_error : {FALSE}]

\* send_mcp_request after its POST (client lines 87-111)
RequestOutcome(resp) ==
  IF resp.kind = "network_error" THEN [kind |-> "request_failed", val |-> None]
  ELSE IF resp.status # "200" THEN [kind |-> "http_error", val |-> resp.status]
  ELSE IF resp.rpc_error THEN [kind |-> "request_failed", val |-> None]
  ELSE [kind |-> "ok", val |-> None]

\* the response to the POST of send_mcp_request (client lines 87-111) or of
\* send_notification (client lines 190-193) arrives
McpResponse(t) ==
  /\ pc[t] = "mcp_wait"
  /\ \E resp \in McpResponses :
       /\ IF op[t] = "request"
          THEN /\ session_id' = IF resp.kind = "response" /\ resp.sid # None
                                THEN resp.sid ELSE session_id
               /\ cres' = [cres EXCEPT ![t] = RequestOutcome(resp)]
          ELSE /\ UNCHANGED session_id
               /\ cres' = [cres EXCEPT ![t] = [kind |-> "ok", val |-> None]]
       /\ log' = [log EXCEPT ![t] = Append(@, EvA("mcp_response", <<resp.status>>))]
       /\ sent' = IF sent.track /\ resp.kind = "response" /\ resp.sid # None
                  THEN [sent EXCEPT !.session = resp.sid]
                  ELSE sent
  /\ pc' = [pc EXCEPT ![t] = "idle"]
  /\ req' = [req EXCEPT ![t] = NoReq]
  /\ UNCHANGED <<h, op, ret, http_client, flowVars, env, given_url, nconstruct, now>>

\* --------------------------------------------------------- environment

\* time passes; the steps are chosen to land on and just past the margins
Tick ==
  /\ \E d \in {CALLBACK_TIMEOUT, CALLBACK_TIMEOUT + 1} :
       /\ now + d <= MaxNow
       /\ now' = now + d
  /\ UNCHANGED <<h, env, given_url, nconstruct, sent, session_id, callVars, flowVars>>

\* a new DatadogMCPClient is constructed for the same URL, as the second run
\* of src/test_caching.py does (lines 17 and 39): DatadogMCPClient.__init__
\* and MCPDatadogOAuthHandler.__init__
Construct ==
  /\ nconstruct < MaxConstruct
  /\ \A t \in Tasks : pc[t] \in {"idle", "off"}
  /\ nconstruct' = nconstruct + 1
  /\ h' = NewHandler(given_url, nconstruct + 2)
  /\ http_client' = [ready |-> FALSE, Authorization |-> <<>>]
  /\ session_id' = None
  /\ op' = [t \in Tasks |-> "none"]
  /\ log' = [t \in Tasks |-> <<>>]
  /\ ret' = [t \in Tasks |-> Pending]
  /\ cres' = [t \in Tasks |-> Pending]
  /\ req' = [t \in Tasks |-> NoReq]
  /\ servers' = [t \in Tasks |-> <<>>]
  /\ server' = [t \in Tasks |-> NoServer]
  /\ lis' = [t \in Tasks |-> ListenerIdle]
  /\ start_time' = [t \in Tasks |-> 0]
  /\ UNCHANGED <<pc, env, given_url, now, sent>>

FlowStep(t) ==
  \/ RefreshResponse(t)
  \/ Discover(t)
  \/ Metadata(t)
  \/ Register(t)
  \/ Authorize(t)
  \/ CallbackCode(t)
  \/ CallbackState(t)
  \/ CallbackError(t)
  \/ Poll(t)
  \/ CheckError(t)
  \/ CheckState(t)
  \/ ReadCode(t)
  \/ ExchangeResponse(t)

\* the handler alone: callers of get_valid_token, the flow, the clock
Next ==
  \/ \E t \in Tasks : Call(t, "gvt")
  \/ \E t \in Tasks : FlowStep(t)
  \/ Tick

Spec == Init /\ [][Next]_vars

\* the handler with a listener that is also sent requests without code and
\* error
NextListener ==
  \/ Next
  \/ \E t \in Tasks : CallbackInvalid(t)
SpecListener == Init /\ [][NextListener]_vars

\* What the coordinator and its HTTP requests do on their own: every step of
\* task t but those of the listener thread, which depend on the user.
Progress(t) ==
  \/ RefreshResponse(t)
  \/ Discover(t)
  \/ Metadata(t)
  \/ Register(t)
  \/ Authorize(t)
  \/ Poll(t)
  \/ CheckError(t)
  \/ CheckState(t)
  \/ ReadCode(t)
  \/ ExchangeResponse(t)

\* the handler when every HTTP request completes, the event loop runs every
\* coroutine that can run, and time advances
SpecLive ==
  /\ Spec
  /\ WF_vars(Tick)
  /\ \A t \in Tasks : WF_vars(Progress(t))

\* the handler for every URL of src/test_canonical_uri.py
InitUrls == \E url \in ResourceUrls : InitWith(url)
SpecUrls == InitUrls /\ [][Next]_vars

\* the handler of one process after another (src/test_caching.py)
NextRestart ==
  \/ Next
  \/ Construct
SpecRestart == Init /\ [][NextRestart]_vars

\* DatadogMCPClient: initialize, then requests and notifications
NextClient ==
  \/ \E t \in Tasks : Call(t, "initialize")
  \/ \E t \in Tasks : Call(t, "request")
  \/ \E t \in Tasks : Call(t, "notify")
  \/ \E t \in Tasks : \E kind \in {"request", "notify"} : CallNotInitialized(t, kind)
  \/ \E t \in Tasks : FlowStep(t)
  \/ \E t \in Tasks : McpResponse(t)
  \/ Tick
SpecClient == Init /\ [][NextClient]_vars

\* The client of a session that holds a token which stays fresh: every
\* get_valid_token call returns at once, and the calls of the client are
\* initialize, requests and notifications by two callers, with the record of
\* the session ids received.
InitSession ==
  /\ InitAround(CanonicalUrl, EnvChoices, Tasks, TRUE)
  /\ h = [NewHandler(given_url, 1) EXCEPT !.access_token = "at1",
                                           !.refresh_token = "rt1",
                                           !.token_expires_at = now + DEFAULT_EXPIRES_IN]
NextSession ==
  \/ \E t \in Tasks : Call(t, "initialize")
  \/ \E t \in Tasks : Call(t, "request")
  \/ \E t \in Tasks : Call(t, "notify")
  \/ \E t \in Tasks : McpResponse(t)
SpecSession == InitSession /\ [][NextSession]_vars

\* the handler in every environment, DATADOG_REDIRECT_URI set or not, with
\* the record of the authorization requests it has sent
EnvChoicesRedirect ==
  EnvChoices \cup
  {[client_id |-> "abc", client_secret |-> None, redirect_uri |-> OtherRedirectUri]}
InitAttempts == InitState(CanonicalUrl, EnvChoicesRedirect, {1}, TRUE)
SpecAttempts == InitAttempts /\ [][Next]_vars

\* the handler whose PKCE pair is computed from the random bytes `bytes`
\* (lines 75-76)
PkceHandler(url, bytes) ==
  [NewHandler(url, 1) EXCEPT
     !.code_verifier = generate_code_verifier(bytes),
     !.code_challenge = generate_code_challenge(generate_code_verifier(bytes))]

\* a handler constructed from one draw, and the constructor running again
\* with any draw
InitPkce ==
  /\ InitAround(CanonicalUrl, EnvChoices, {1}, FALSE)
  /\ h = PkceHandler(CanonicalUrl, [i \in 1..TokenBytes |-> 255])
GeneratePkce ==
  /\ nconstruct < MaxConstruct
  /\ nconstruct' = nconstruct + 1
  /\ \E bytes \in RandomBytes : h' = PkceHandler(given_url, bytes)
  /\ UNCHANGED <<session_id, callVars, flowVars, env, given_url, now, sent>>
SpecPkce == InitPkce /\ [][GeneratePkce]_vars

\* ------------------------------------------- _parse_as_uri_from_header
\* A header is a sequence of atoms; the key 'as_uri=' is the two atoms
\* "as_uri", "=", wherever they stand ("alias_uri=" is "ali", "as_uri", "=").

Quote == "\""
AsUriKey == <<"as_uri", "=">>

\* s.split(sep) for a separator of one atom
RECURSIVE Split(_, _)
Split(s, sep) ==
  IF \A i \in 1..Len(s) : s[i] # sep THEN <<s>>
  ELSE LET k == CHOOSE i \in 1..Len(s) : s[i] = sep /\ \A j \in 1..(i - 1) : s[j] # sep
       IN <<SubSeq(s, 1, k - 1)>> \o Split(SubSeq(s, k + 1, Len(s)), sep)

\* 'as_uri=' in s
ContainsKey(s) == \E i \in 1..(Len(s) - 1) : SubSeq(s, i, i + 1) = AsUriKey

\* s.split('as_uri=')
RECURSIVE SplitKey(_)
SplitKey(s) ==
  IF ~ContainsKey(s) THEN <<s>>
  ELSE LET k == CHOOSE i \in 1..(Len(s) - 1) :
                  /\ SubSeq(s, i, i + 1) = AsUriKey
                  /\ \A j \in 1..(i - 1) : SubSeq(s, j, j + 1) # AsUriKey
       IN <<SubSeq(s, 1, k - 1)>> \o SplitKey(SubSeq(s, k + 2, Len(s)))

\* s.strip(chars); str.strip() without an argument strips white space
RECURSIVE Strip(_, _)
Strip(s, chars) ==
  IF s = <<>> THEN s
  ELSE IF s[1] \in chars THEN Strip(Tail(s), chars)
  ELSE IF s[Len(s)] \in chars THEN Strip(SubSeq(s, 1, Len(s) - 1), chars)
  ELSE s

\* lines 167-174; the result is Optional[str]: found tells None from a string
parse_as_uri_from_header(header) ==
  LET parts == Split(header, ",")
      hits == {i \in 1..Len(parts) : ContainsKey(parts[i])}
  IN IF hits = {} THEN [found |-> FALSE, value |-> <<>>]
     ELSE LET part == parts[CHOOSE i \in hits : \A j \in hits : i <= j]
          IN [found |-> TRUE,
              value |-> Strip(Strip(SplitKey(part)[2], {" "}), {Quote})]

\* the challenge parameters a header is made of: name="value"
Param(name, value) == [name |-> name, value |-> value]
ParamChoices ==
  {Param(<<"realm">>, <<"example">>),
   Param(<<"error">>, <<"invalid_token">>),
   Param(<<"as_uri">>, <<"https://auth.example.com/.well-known/oauth-protected-resource">>),
   Param(<<"as_uri">>, <<"https://auth.example.com/meta?", "as_uri", "=", "1">>),
   Param(<<"AS_URI">>, <<"https://upper.example.com/meta">>),
   Param(<<"ali", "as_uri">>, <<"https://other.example.com/meta">>)}
IsAsUri(param) == param.name = <<"as_uri">>
\* lists of different parameters, at most one of them named as_uri
ParamLists ==
  UNION {{ps \in [1..n -> ParamChoices] :
            /\ \A i, j \in 1..n : i # j => ps[i] # ps[j]
            /\ Cardinality({i \in 1..n : IsAsUri(ps[i])}) <= 1} : n \in 1..MaxParams}

Render(param) == param.name \o <<"=", Quote>> \o param.value \o <<Quote>>
RECURSIVE Join(_, _)
Join(ps, sep) ==
  IF Len(ps) = 1 THEN Render(ps[1])
  ELSE Render(ps[1]) \o sep \o Join(Tail(ps), sep)
\* the header: with or without the scheme, the parameters separated by a comma
\* or by a comma and a space
Header(scheme, ps, sep) == scheme \o Join(ps, sep)

\* check 3 of check_mcp_compliance: the parser is called with a header and its
\* result kept (the header there is one fixed string; here any of the above)
ParseHeader(t) ==
  /\ pc[t] = "idle"
  /\ \A u \in Tasks : log[u] = <<>>
  /\ \E scheme \in {<<>>, <<"Bearer", " ">>}, ps \in ParamLists,
        sep \in {<<",">>, <<",", " ">>} :
       log' = [log EXCEPT ![t] =
                 <<EvA("www_authenticate",
                       [params |-> ps, header |-> Header(scheme, ps, sep)]),
                   EvA("parsed_uri", parse_as_uri_from_header(Header(scheme, ps, sep)))>>]
  /\ UNCHANGED <<h, session_id, http_client, pc, op, ret, cres, req, flowVars, worldVars>>

SpecHeader == Init /\ [][\E t \in Tasks : ParseHeader(t)]_vars

\* get_valid_token up to the selection of the server, the discovery request
\* by request
NextDiscovery ==
  \/ \E t \in Tasks : Call(t, "gvt")
  \/ \E t \in Tasks : DiscoverTraced(t)
  \/ \E t \in Tasks : Metadata(t)
SpecDiscovery == Init /\ [][NextDiscovery]_vars

\* Two callers share the handler.  The world they meet is the cooperative
\* one: every server answers as a Datadog deployment with dynamic
\* registration does, the token endpoint issues at1/rt1, the user approves
\* in the one browser window with the code c1 and the state of the request.
\* The only failure left is the one the callers cause each other (the port).
Cooperative ==
  /\ h.auth_server_metadata \in {NoMetadata, Doc(MainIssuer, "full")}
  /\ h.client_id \in {None, "dyn1"}
  /\ h.access_token \in {None, "at1"}
  /\ h.refresh_token \in {None, "rt1"}
  /\ h.token_expires_at \in {NoneTime, now + REFRESH_MARGIN, now}
  /\ \A t \in Tasks :
       /\ servers[t] \in {<<>>, <<MainIssuer>>}
       /\ server[t].auth_code \in {None, "c1"}
       /\ server[t].auth_error = None
       /\ server[t].code_state \in {None, h.state}
       /\ ret[t].kind = "error" => ret[t].val = "BIND_FAILED"
       /\ \A i \in 1..Len(log[t]) : log[t][i].ev # "refresh_failed"

InitConcurrent ==
  InitState(CanonicalUrl,
            {[client_id |-> None, client_secret |-> None, redirect_uri |-> DefaultRedirectUri]},
            Tasks, FALSE)

NextConcurrent ==
  \/ \E t \in Tasks : Call(t, "gvt") /\ Cooperative'
  \/ \E t \in Tasks : RefreshResponse(t) /\ Cooperative'
  \/ \E t \in Tasks : Discover(t) /\ Cooperative'
  \/ \E t \in Tasks : Metadata(t) /\ Cooperative'
  \/ \E t \in Tasks : Register(t) /\ Cooperative'
  \/ \E t \in Tasks : Authorize(t) /\ Cooperative'
  \/ \E t \in Tasks : CallbackCode(t) /\ Cooperative'
  \/ \E t \in Tasks : CallbackState(t) /\ Cooperative'
  \/ \E t \in Tasks : Poll(t) /\ Cooperative'
  \/ \E t \in Tasks : CheckError(t) /\ Cooperative'
  \/ \E t \in Tasks : CheckState(t) /\ Cooperative'
  \/ \E t \in Tasks : ReadCode(t) /\ Cooperative'
  \/ \E t \in Tasks : ExchangeResponse(t) /\ Cooperative'
  \/ Tick /\ Cooperative'
SpecConcurrent == InitConcurrent /\ [][NextConcurrent]_vars

\* The user approves once: the listener serves exactly one callback per wait,
\* and it carries a code and the state of the request.
OneCallback(t) ==
  /\ CallbackCode(t)
  /\ server[t].auth_code = None
  /\ server'[t].code_state = h.state

\* the handler with that one callback: the two writes of do_GET against the
\* reads of the coordinator
NextHandoff ==
  \/ \E t \in Tasks : Call(t, "gvt")
  \/ \E t \in Tasks : RefreshResponse(t)
  \/ \E t \in Tasks : Discover(t)
  \/ \E t \in Tasks : Metadata(t)
  \/ \E t \in Tasks : Register(t)
  \/ \E t \in Tasks : Authorize(t)
  \/ \E t \in Tasks : OneCallback(t)
  \/ \E t \in Tasks : CallbackState(t)
  \/ \E t \in Tasks : Poll(t)
  \/ \E t \in Tasks : CheckError(t)
  \/ \E t \in Tasks : CheckState(t)
  \/ \E t \in Tasks : ReadCode(t)
  \/ \E t \in Tasks : ExchangeResponse(t)
  \/ Tick
SpecHandoff == Init /\ [][NextHandoff]_vars

\* ------------------------------------------------------------ properties

HasEv(lg, name) == \E i \in 1..Len(lg) : lg[i].ev = name
Count(lg, name) == Cardinality({i \in 1..Len(lg) : lg[i].ev = name})

\* task t enters get_valid_token in this step (between two calls only the
\* clock moves)
CallStarts(t) ==
  /\ pc[t] = "idle"
  /\ nconstruct' = nconstruct
  /\ \/ pc'[t] # pc[t] \/ op'[t] # op[t] \/ log'[t] # log[t]
     \/ ret'[t] # ret[t] \/ cres'[t] # cres[t]

\* a token is stored together with its expiry
TokenStored == Truthy(h.access_token) /\ h.token_expires_at # NoneTime

\* the errors start_mcp_oauth_flow ends with
FlowErrors ==
  {"NO_SERVERS", "DISCOVERY_FAILED", "REGISTRATION_FALLBACK_EXHAUSTED", "AUTHZ_URL",
   "BIND_FAILED", "TIMEOUT", "AUTH_DENIED", "STATE_MISMATCH", "EXCHANGE_FAILED"}

\* C1: whenever the callback the coordinator acts on (the one whose state it
\* reads at line 394, or whose code it sends at line 398) carries a state
\* other than the session's state, or none, the flow ends with the
\* state-mismatch error, reaches no TOKEN_EXCHANGED and sends no
\* token-exchange request.
C1_MismatchedCallbackNeverExchanged ==
  \A t \in Tasks :
    LET lg == log[t]
        acted == {i \in 1..Len(lg) :
                    \/ lg[i].ev = "state_read" /\ lg[i].arg[1] # h.state
                    \/ lg[i].ev = "exchange_post" /\ lg[i].arg[2] # h.state}
    IN acted # {} =>
         /\ ~HasEv(lg, "exchange_post")
         /\ ~HasEv(lg, "token_exchanged")
         /\ pc[t] = "idle" => ret[t] = Error("STATE_MISMATCH")

\* C2: with a token stored and now < expires_at - 300, get_valid_token
\* returns the stored access token at once, sends no request and changes no
\* field of the handler (so a second call does the same).
C2_FreshTokenReturnedUntouched ==
  [][\A t \in Tasks :
       (CallStarts(t) /\ TokenStored /\ now < h.token_expires_at - REFRESH_MARGIN)
       => /\ pc'[t] = "idle"
          /\ ret'[t] = [kind |-> "token", val |-> h.access_token]
          /\ log'[t] = <<Ev("get_valid_token")>>
          /\ req'[t] = NoReq
          /\ h' = h]_vars

\* a call has just returned the stored token, more than the margin before its expiry
C2_Witness ==
  /\ pc[1] = "idle"
  /\ log[1] = <<Ev("get_valid_token")>>
  /\ TokenStored
  /\ ret[1] = [kind |-> "token", val |-> h.access_token]
  /\ now < h.token_expires_at - REFRESH_MARGIN
  /\ now > 1

\* C3: for every now >= expires_at - 300, the boundary included, a call does
\* not return the stored token: it takes the refresh or the re-authorization
\* path.
C3_MarginBoundaryRefreshes ==
  [][\A t \in Tasks :
       (CallStarts(t) /\ TokenStored /\ now >= h.token_expires_at - REFRESH_MARGIN)
       => pc'[t] \in {"refresh_wait", "discover"}]_vars

\* C4: a call that finds the token expired or within the margin and a
\* refresh token stored sends exactly one refresh request before anything
\* else, and when that request succeeds the call returns the new token with
\* no discovery, registration, listener or browser step.
C4_ExactlyOneRefreshRequest ==
  /\ [][\A t \in Tasks :
          (CallStarts(t) /\ TokenStored /\ now > h.token_expires_at - REFRESH_MARGIN
             /\ Truthy(h.refresh_token))
          => /\ pc'[t] = "refresh_wait"
             /\ log'[t] = <<Ev("get_valid_token"), Ev("refresh_post")>>
             /\ req'[t].grant_type = "refresh_token"]_vars
  /\ [](\A t \in Tasks :
          /\ Count(log[t], "refresh_post") <= 1
          /\ HasEv(log[t], "refresh_ok") =>
               /\ Len(log[t]) = 3
               /\ ret[t] = [kind |-> "token", val |-> h.access_token])

\* C5: after a successful refresh the stored refresh token is the response's
\* when the response has that member and the one stored before otherwise;
\* access token and expiry are the response's.
C5_RefreshTokenKeptOrReplaced ==
  [][\A t \in Tasks :
       (pc[t] = "refresh_wait" /\ HasEv(log'[t], "refresh_ok"))
       => LET r == log'[t][Len(log'[t])].arg
          IN /\ h'.access_token = r[1]
             /\ h'.refresh_token = (IF r[2] # Absent THEN r[2] ELSE h.refresh_token)
             /\ h'.token_expires_at = now + r[3]]_vars

\* a refresh whose response had no refresh_token member has succeeded and the
\* handler still holds a refresh token
C5_Witness ==
  /\ pc[1] = "idle"
  /\ Len(log[1]) = 3
  /\ log[1][3].ev = "refresh_ok"
  /\ log[1][3].arg[2] = Absent
  /\ Truthy(h.refresh_token)
  /\ h.access_token = log[1][3].arg[1]

\* C6: a failed refresh (no request possible, or a failed request) is
\* followed at once by the full flow, and the call ends with the result of
\* that flow: the token it exchanged, or one of its errors.
C6_RefreshFailureFallsBackToFlow ==
  \A t \in Tasks :
    \A i \in 1..Len(log[t]) :
      log[t][i].ev = "refresh_failed" =>
        /\ i < Len(log[t])
        /\ log[t][i + 1].ev = "flow_start"
        /\ pc[t] = "idle" =>
             IF ret[t].kind = "token"
             THEN HasEv(log[t], "token_exchanged") /\ ret[t].val = h.access_token
             ELSE ret[t].kind = "error" /\ ret[t].val \in FlowErrors

\* a refresh request failed and the flow that followed obtained a token
C6_Witness ==
  /\ pc[1] = "idle"
  /\ HasEv(log[1], "refresh_post")
  /\ HasEv(log[1], "refresh_failed")
  /\ HasEv(log[1], "token_exchanged")
  /\ ret[1].kind = "token"

\* C7: for every construction URL, the `resource` parameter a server decodes
\* from every authorization URL, and the `resource` of every token-exchange
\* and refresh request, is that URL exactly, and resource_uri never changes.
C7_ResourceIsConstructionUrl ==
  /\ [](\A t \in Tasks :
          /\ \A i \in 1..Len(log[t]) :
               log[t][i].ev = "browser" =>
                 QueryParam(QueryOf(log[t][i].arg), <<"resource">>) = given_url
          /\ req[t].kind = "token" => req[t].resource = given_url)
  /\ [](h.resource_uri = given_url)
  /\ [][h'.resource_uri = h.resource_uri]_vars

\* a handler constructed with the trailing-slash URL has opened the browser,
\* later refreshed, and is now exchanging a code again
C7_Witness ==
  /\ given_url = SlashUrl
  /\ pc[1] = "exchange_wait"
  /\ HasEv(log[1], "browser")
  /\ HasEv(log[1], "refresh_post")
  /\ req[1].grant_type = "authorization_code"

\* C8: a newly constructed handler for the same resource starts from the
\* TokenSet the previous one obtained.
C8_NewHandlerStartsFromStoredTokens ==
  [][nconstruct' = nconstruct + 1 =>
       /\ h'.access_token = h.access_token
       /\ h'.refresh_token = h.refresh_token
       /\ h'.token_expires_at = h.token_expires_at]_vars

\* C9: a request the protected resource answers with 401 is retried exactly
\* once, with a token obtained by the full flow after the stored tokens were
\* invalidated.
C9_RejectionRetriedOnceViaFullFlow ==
  \A t \in Tasks :
    (/\ op[t] = "request"
     /\ pc[t] = "idle"
     /\ \E i \in 1..Len(log[t]) :
          /\ log[t][i] = EvA("mcp_response", <<"401">>)
          /\ Count(SubSeq(log[t], 1, i), "mcp_response") = 1)
    => /\ Count(log[t], "mcp_post") = 2
       /\ \E i, j, k \in 1..Len(log[t]) :
            /\ i < j /\ j < k
            /\ log[t][i] = EvA("mcp_response", <<"401">>)
            /\ log[t][j].ev = "flow_start"
            /\ log[t][k].ev = "mcp_post"

\* C10: every POST to the protected resource comes after a get_valid_token
\* call of the same client call, and its Authorization header is 'Bearer '
\* followed by the token that call returned.
C10_BearerIsTokenJustReturned ==
  \A t \in Tasks :
    /\ \A i \in 1..Len(log[t]) :
         log[t][i].ev = "mcp_post" =>
           /\ i > 1
           /\ log[t][1] = Ev("get_valid_token")
           /\ Count(SubSeq(log[t], 1, i), "mcp_post") = 1
    /\ pc[t] = "mcp_wait" =>
         /\ log[t][Len(log[t])] = Ev("mcp_post")
         /\ ret[t].kind = "token"
         /\ req[t].kind = "mcp"
         /\ req[t].authorization = <<"Bearer ", ret[t].val>>

\* a notification is in flight whose token was refreshed in the same call
C10_Witness ==
  /\ pc[1] = "mcp_wait"
  /\ op[1] = "notify"
  /\ HasEv(log[1], "refresh_ok")
  /\ req[1].authorization # <<>>

\* C11: of the concurrent get_valid_token calls on one handler that need
\* authorization, at most one has an authorization attempt in progress (its
\* listener started, its browser window opened, its exchange under way):
\* no two tasks are between the start of the listener and its shutdown at
\* the same time.
C11_OneAuthorizationAttemptAtATime ==
  \A t, u \in Tasks :
    (server[t].serving /\ server[u].serving) => t = u

\* C12: the refresh path is serialised: no two refresh requests that carry
\* the same refresh token are awaiting the token endpoint's answer at the
\* same time.
C12_RefreshTokenSubmittedOnce ==
  \A t, u \in Tasks :
    (/\ pc[t] = "refresh_wait" /\ pc[u] = "refresh_wait"
     /\ req[t].grant_type = "refresh_token" /\ req[u].grant_type = "refresh_token"
     /\ req[t].refresh_token = req[u].refresh_token) => t = u

\* C13: whatever the HTTP outcomes of discovery are,
\* discover_authorization_servers returns a non-empty list of candidate
\* issuers: start_mcp_oauth_flow, which raises "No authorization servers
\* discovered" exactly when the list returned is empty (lines 320-322),
\* never does so.
C13_DiscoveryNeverEmpty ==
  \A t \in Tasks : ret[t] # Error("NO_SERVERS")

\* C14: a flow whose dynamic registration failed (no registration_endpoint,
\* an error answer, a network error) while DATADOG_CLIENT_ID is configured
\* is never ended by the registration: it goes on to the authorization step
\* (the listener is the next thing it starts) and every authorization URL it
\* builds carries exactly the configured client_id.  A registration POST is
\* made only when the metadata has a registration_endpoint.
C14_FallbackUsesConfiguredClientId ==
  \A t \in Tasks :
    LET lg == log[t] IN
    /\ HasEv(lg, "register_post") => h.auth_server_metadata.registration_endpoint # NoneSeq
    /\ ret[t] = Error("REGISTRATION_FALLBACK_EXHAUSTED") => ~Truthy(env.client_id)
    /\ \A i \in 1..Len(lg) :
         lg[i].ev = "registration_fallback" =>
           /\ Truthy(env.client_id)
           /\ i < Len(lg) => lg[i + 1].ev = "listen"
           /\ i = Len(lg) => (pc[t] = "authorize" \/ ret[t] = Error("BIND_FAILED"))
           /\ \A j \in 1..Len(lg) :
                lg[j].ev = "browser" =>
                  QueryParam(QueryOf(lg[j].arg), <<"client_id">>) = <<env.client_id>>

\* a flow without a registration_endpoint has fallen back to the configured
\* client_id and has opened the browser
C14_Witness ==
  \E t \in Tasks :
    /\ HasEv(log[t], "registration_fallback")
    /\ ~HasEv(log[t], "register_post")
    /\ HasEv(log[t], "browser")
    /\ h.client_id = "abc"

\* the steps of a flow after its registration step
PastRegistration ==
  {"authorize", "poll", "check_error", "check_state", "read_code", "exchange_wait"}

\* C15: when dynamic registration fails and no DATADOG_CLIENT_ID is
\* configured, the flow ends there with a fatal error: without a configured
\* client_id a flow gets past its registration step only by a successful
\* registration, and the call that ended with the registration error has
\* started no listener, opened no browser and sent no token-exchange request.
C15_NoFallbackIsFatalBeforeListener ==
  \A t \in Tasks :
    LET lg == log[t] IN
    /\ (~Truthy(env.client_id) /\ (pc[t] \in PastRegistration \/ HasEv(lg, "listen")))
         => HasEv(lg, "registered")
    /\ ret[t] = Error("REGISTRATION_FALLBACK_EXHAUSTED") =>
         /\ pc[t] = "idle"
         /\ ~HasEv(lg, "listen") /\ ~HasEv(lg, "browser") /\ ~HasEv(lg, "exchange_post")
         /\ ~server[t].serving /\ server[t].bound = Unbound
         /\ req[t] = NoReq

\* a registration POST has failed with no client_id configured and the call
\* has ended with the registration error
C15_Witness ==
  \E t \in Tasks :
    /\ ret[t] = Error("REGISTRATION_FALLBACK_EXHAUSTED")
    /\ HasEv(log[t], "register_post")
    /\ ~Truthy(env.client_id)

\* the parameter names of lines 301-310
AuthorizationParams ==
  {<<"response_type">>, <<"client_id">>, <<"redirect_uri">>, <<"code_challenge">>,
   <<"code_challenge_method">>, <<"resource">>, <<"state">>}

\* C16: every authorization URL built and opened (the step from line 371 to
\* the wait) carries, as the server that parses it reads them, exactly
\* seven parameters: response_type=code, the handler's
\* client_id, redirect_uri, code_challenge, code_challenge_method=S256,
\* resource and state; none is named scope; code_challenge and S256 are
\* there whatever the selected metadata says about PKCE.
C16_AuthorizationUrlParameters ==
  [][\A t \in Tasks :
       (pc[t] = "authorize" /\ pc'[t] = "poll") =>
         LET url  == log'[t][Len(log'[t])].arg
             q    == QueryOf(url)
             keys == QueryKeys(q)
         IN /\ log'[t][Len(log'[t])].ev = "browser"
            /\ Len(keys) = 7
            /\ {keys[k] : k \in 1..Len(keys)} = AuthorizationParams
            /\ \A k \in 1..Len(keys) : keys[k] # <<"scope">>
            /\ QueryParam(q, <<"response_type">>) = <<"code">>
            /\ QueryParam(q, <<"client_id">>) = <<h.client_id>>
            /\ QueryParam(q, <<"redirect_uri">>) = h.redirect_uri
            /\ QueryParam(q, <<"code_challenge">>) = h.code_challenge
            /\ QueryParam(q, <<"code_challenge_method">>) = <<"S256">>
            /\ QueryParam(q, <<"resource">>) = h.resource_uri
            /\ QueryParam(q, <<"state">>) = <<h.state>>]_vars

\* an authorization URL was opened for a server whose metadata does not
\* advertise S256, with a resource that has "&" and "=" in it
C16_Witness ==
  \E t \in Tasks :
    /\ HasEv(log[t], "browser")
    /\ h.auth_server_metadata.pkce # "S256"
    /\ h.resource_uri = QueryUrl

\* task t opens an authorization request in this step (lines 371-373)
OpensRequest(t) == pc[t] = "authorize" /\ pc'[t] = "poll"
\* the authorization URL task t has just opened
OpenedUrl(t) == log'[t][Len(log'[t])].arg

\* C17: PKCE parameters belong to one authorization attempt: no run of the
\* interactive flow sends a code_challenge that an earlier run on the same
\* handler has sent in its authorization request.
C17_PkceNeverReused ==
  [][\A t \in Tasks :
       OpensRequest(t) =>
         \A r \in sent.requests :
           QueryParam(QueryOf(OpenedUrl(t)), <<"code_challenge">>) # r[2]]_vars

\* C18: the state belongs to one authorization attempt: once an attempt has
\* sent a state value, no later attempt on the same handler sends that value
\* in its authorization request.
C18_StateNeverReused ==
  [][\A t \in Tasks :
       OpensRequest(t) =>
         \A r \in sent.requests :
           QueryParam(QueryOf(OpenedUrl(t)), <<"state">>) # r[1]]_vars

\* C19: for every configured redirect URI, a listener that is up is bound to
\* exactly the host and port of that URI.
C19_ListenerBoundToRedirectUri ==
  \A t \in Tasks :
    server[t].serving => server[t].bound = Netloc(h.redirect_uri)

\* C20: when no callback with a code or an error has arrived within
\* CALLBACK_TIMEOUT of the start of the wait, the flow ends in TIMEOUT: the
\* coordinator never goes on (to the error check, the state check, the
\* exchange) with a callback that came later than that, no exchange request
\* carries the code of such a callback, and a call that ended in TIMEOUT has
\* sent no exchange request.
C20_LateCallbackMeansTimeout ==
  \A t \in Tasks :
    /\ server[t].late => pc[t] \notin {"check_error", "check_state", "read_code"}
    /\ \A i \in 1..Len(log[t]) : log[t][i].ev = "exchange_post" => ~log[t][i].arg[3]
    /\ ret[t] = Error("TIMEOUT") => ~HasEv(log[t], "exchange_post")

\* C21: from the moment the listener holds an error while the coordinator is
\* still in its wait loop or at the check after it, the flow can only end,
\* and it ends with the authorization-denied error and without a
\* token-exchange request, whether or not a code has been stored as well.
C21_RecordedErrorDeniesAuthorization ==
  [][\A t \in Tasks :
       (pc[t] \in {"poll", "check_error"} /\ Truthy(server[t].auth_error)) =>
         \/ pc'[t] \in {"poll", "check_error"} /\ Truthy(server'[t].auth_error)
         \/ /\ pc'[t] = "idle"
            /\ ret'[t] = Error("AUTH_DENIED")
            /\ ~HasEv(log'[t], "exchange_post")
            /\ req'[t] = NoReq]_vars

\* the coordinator is at the check after the loop with both an error and a
\* code stored
C21_Witness ==
  \E t \in Tasks :
    /\ pc[t] = "check_error"
    /\ Truthy(server[t].auth_error)
    /\ server[t].auth_code # None

\* RFC 4648 section 5 without padding, from the bits: bit j of the byte
\* string, and the characters of its groups of six bits (the last group
\* filled with zero bits)
BitAt(bytes, j) ==
  IF j > 8 * Len(bytes) THEN 0
  ELSE (bytes[((j - 1) \div 8) + 1] \div (2 ^ (7 - ((j - 1) % 8)))) % 2
Base64UrlNoPad(bytes) ==
  [i \in 1..((8 * Len(bytes) + 5) \div 6) |->
     UrlSafeAlphabet[1 + BitAt(bytes, 6 * i - 5) * 32 + BitAt(bytes, 6 * i - 4) * 16
                       + BitAt(bytes, 6 * i - 3) * 8 + BitAt(bytes, 6 * i - 2) * 4
                       + BitAt(bytes, 6 * i - 1) * 2 + BitAt(bytes, 6 * i)]]

\* C22: the verifier the handler holds is the unpadded base64url encoding of
\* 32 random bytes: 43 characters (within 43..128), none of them "="; the
\* challenge is the unpadded base64url encoding of the SHA-256 digest of the
\* verifier's bytes, again with no "=".
C22_PkcePairEncoding ==
  LET v == h.code_verifier
      c == h.code_challenge
  IN /\ \E bytes \in RandomBytes : Len(bytes) = 32 /\ v = Base64UrlNoPad(bytes)
     /\ Len(v) = 43 /\ Len(v) >= 43 /\ Len(v) <= 128
     /\ \A i \in 1..Len(v) : v[i] # "="
     /\ c = Base64UrlNoPad(sha256(Utf8(v)))
     /\ \A i \in 1..Len(c) : c[i] # "="

\* a pair generated from random bytes whose padded encoding ends in "="
C22_Witness ==
  /\ nconstruct > 0
  /\ h.code_challenge # <<>>
  /\ \E bytes \in RandomBytes :
       /\ h.code_verifier = generate_code_verifier(bytes)
       /\ urlsafe_b64encode(bytes)[44] = "="

\* the requests discovery made in the call of task t, or <<>>
DiscoveryTraces(t) == {log[t][i].arg : i \in {j \in 1..Len(log[t]) : log[t][j].ev = "discover"}}

\* C23: discover_authorization_servers never raises: whatever the probe, the
\* as_uri document and the well-known documents answer (network error, error
\* status, a body that is no JSON or no JSON object), no call ends with an
\* exception of the discovery: every discovery that has run has handed a
\* list to start_mcp_oauth_flow, which went on with it or, the list being
\* empty, raised its own error.
C23_DiscoveryNeverRaises ==
  \A t \in Tasks :
    /\ ret[t] # Error("DISCOVERY_RAISED")
    /\ DiscoveryTraces(t) # {} =>
         \/ pc[t] \in {"metadata", "register"}
         \/ ret[t] \in {Error("NO_SERVERS"), Error("DISCOVERY_FAILED")}

\* discovery has come back with the fallback list after the probe failed
C23_Witness ==
  \E t \in Tasks :
    /\ pc[t] = "metadata"
    /\ <<"probe", "fallback">> \in DiscoveryTraces(t)
    /\ servers[t] = FallbackServers(h.mcp_server_url)

\* position of the first occurrence of name in the trace tr, or 0
TracePos(tr, name) ==
  IF \E i \in 1..Len(tr) : tr[i] = name
  THEN CHOOSE i \in 1..Len(tr) : tr[i] = name /\ \A j \in 1..(i - 1) : tr[j] # name
  ELSE 0

\* C24: discovery runs its steps in order: whenever it comes to the
\* convention fallback of step 3, each of the three well-known metadata
\* paths of step 2 has been attempted before, in the fixed order, also when
\* step 1 ended with a network error of the probe or a failed as_uri fetch.
C24_WellKnownPathsBeforeFallback ==
  \A t \in Tasks : \A tr \in DiscoveryTraces(t) :
    TracePos(tr, "fallback") # 0 =>
      /\ 0 < TracePos(tr, "well_known_1")
      /\ TracePos(tr, "well_known_1") < TracePos(tr, "well_known_2")
      /\ TracePos(tr, "well_known_2") < TracePos(tr, "well_known_3")
      /\ TracePos(tr, "well_known_3") < TracePos(tr, "fallback")

\* C25: the candidate issuers are tried in list order: every turn of the loop
\* contacts the first candidate not yet tried; when its metadata discovery
\* succeeds that candidate is the selected server and the flow leaves the
\* loop, and no step outside the loop contacts a candidate; when it fails
\* the loop goes on with the next; when the last one has failed the flow
\* ends in DISCOVERY_FAILED, and a call that ended so has made no
\* registration request, started no listener, opened no browser and sent no
\* token request.
C25_FirstSuccessfulCandidateSelected ==
  /\ [](\A t \in Tasks :
          ret[t] = Error("DISCOVERY_FAILED") =>
            /\ \A i \in 1..Len(log[t]) :
                 log[t][i].ev \notin {"register_post", "registered", "registration_fallback",
                                      "listen", "browser", "exchange_post"}
            /\ req[t] = NoReq
            /\ ~server[t].serving)
  /\ [][\A t \in Tasks :
          /\ (pc[t] = "metadata" /\ (pc'[t] # "metadata" \/ servers'[t] # servers[t])) =>
               LET first == Head(servers[t]) IN
               /\ log'[t] = Append(log[t], EvA("metadata_get", first))
               /\ pc'[t] \in {"register", "metadata", "idle"}
               /\ pc'[t] = "register" =>
                    /\ h'.selected_auth_server = first
                    /\ h'.auth_server_metadata.present
               /\ pc'[t] = "metadata" => (servers'[t] = Tail(servers[t]) /\ h' = h)
               /\ pc'[t] = "idle" =>
                    /\ Tail(servers[t]) = <<>>
                    /\ ret'[t] = Error("DISCOVERY_FAILED")
                    /\ h' = h
          /\ (pc[t] \notin {"metadata", "idle"} /\ pc'[t] # "idle") =>
               Count(log'[t], "metadata_get") = Count(log[t], "metadata_get")]_vars

\* the first candidate has failed and the second is the selected server
C25_Witness ==
  \E t \in Tasks :
    /\ pc[t] = "register"
    /\ Count(log[t], "metadata_get") = 2
    /\ h.selected_auth_server = MainIssuer

\* C26: when every discovery URL of an issuer fails, a Datadog issuer gets the
\* minimal metadata (authorization_endpoint issuer + "/authorize" and
\* token_endpoint issuer + "/token"; for an issuer ending in "/authorize" the
\* issuer itself and the issuer with that suffix turned into "/token"); any
\* other issuer is rejected, and a rejected issuer leaves the selected server
\* and the metadata of the session as they were.
C26_FallbackOrFailure ==
  [][\A t \in Tasks :
       (pc[t] = "metadata" /\ Len(log'[t]) > Len(log[t])) =>
         LET issuer == Head(servers[t])
             n == Len(issuer)
             failed == DiscoverMetadata(issuer, "fail")
             rejected == pc'[t] \in {"metadata", "idle"}
         IN /\ IF IsDatadog(issuer)
               THEN /\ failed.present
                    /\ IF n >= 2 /\ SubSeq(issuer, n - 1, n) = <<"/", "authorize">>
                       THEN /\ failed.authorization_endpoint = issuer
                            /\ failed.token_endpoint =
                                 SubSeq(issuer, 1, n - 2) \o <<"/", "token">>
                       ELSE /\ failed.authorization_endpoint = issuer \o <<"/", "authorize">>
                            /\ failed.token_endpoint = issuer \o <<"/", "token">>
               ELSE ~failed.present
            /\ IF rejected
               THEN /\ ~IsDatadog(issuer)
                    /\ h'.selected_auth_server = h.selected_auth_server
                    /\ h'.auth_server_metadata = h.auth_server_metadata
               ELSE /\ h'.selected_auth_server = issuer
                    /\ h'.auth_server_metadata \in
                         {failed} \cup {Doc(issuer, k) : k \in DocKinds}
                    /\ h'.auth_server_metadata.present]_vars

\* the fallback was taken for an issuer that ends in "/authorize"
C26_Witness ==
  /\ h.selected_auth_server = AuthorizeIssuer
  /\ h.auth_server_metadata.present
  /\ h.auth_server_metadata.authorization_endpoint = AuthorizeIssuer
  /\ h.auth_server_metadata.token_endpoint = MainIssuer \o <<"/", "token">>

\* the events of the flow task t is in, or was last in: those after its last
\* flow_start
LastPos(lg, name) ==
  IF HasEv(lg, name) THEN CHOOSE i \in 1..Len(lg) :
                            lg[i].ev = name /\ \A j \in (i + 1)..Len(lg) : lg[j].ev # name
  ELSE 0
FlowEvents(t) == SubSeq(log[t], LastPos(log[t], "flow_start") + 1, Len(log[t]))
Before(seg, names, i) == \E j \in 1..(i - 1) : seg[j].ev \in names

InAuthorizationFlow(t) ==
  pc[t] \in {"poll", "check_error", "check_state", "read_code", "exchange_wait"}

\* C28: a listener that was started is stopped when
\* _perform_authorization_flow has ended, whatever the outcome: in a run that
\* started a listener and is no longer inside that function, the listener
\* serves no more, no callback is being handled, and the shutdown was the
\* last thing the run did; the run ended with the token or with one of the
\* errors of the function.
C28_ListenerStoppedOnEveryOutcome ==
  \A t \in Tasks :
    (HasEv(FlowEvents(t), "listen") /\ ~InAuthorizationFlow(t)) =>
      /\ ~server[t].serving
      /\ ~lis[t].busy
      /\ Count(FlowEvents(t), "shutdown") = 1
      /\ Before(FlowEvents(t), {"listen"}, LastPos(FlowEvents(t), "shutdown"))
      /\ pc[t] = "idle" =>
           /\ FlowEvents(t)[Len(FlowEvents(t))].ev = "shutdown"
           /\ \/ ret[t].kind = "token"
              \/ ret[t] \in {Error(e) : e \in {"AUTHZ_URL", "TIMEOUT", "AUTH_DENIED",
                                               "STATE_MISMATCH", "EXCHANGE_FAILED"}}

\* the flow has ended because the authorization URL could not be built, after
\* the listener had been started
C28_Witness ==
  \E t \in Tasks :
    /\ pc[t] = "idle"
    /\ ret[t] = Error("AUTHZ_URL")
    /\ HasEv(FlowEvents(t), "listen")
    /\ ~server[t].serving

\* the instant the claim names for a response that arrives now with the
\* expires_in member `member`
ExpiryFor(member) == now + (IF member = <<>> THEN 3600 ELSE member[1])

\* C29: a successful token exchange and a successful refresh both store
\* token_expires_at = the time of the response + expires_in, with expires_in
\* the member of the response or 3600 when the response has none.
C29_ExpiryIsResponseTimePlusLifetime ==
  [][\A t \in Tasks :
       /\ (pc[t] = "exchange_wait" /\ HasEv(log'[t], "token_exchanged"))
            => /\ h'.token_expires_at =
                    ExpiryFor(log'[t][LastPos(log'[t], "token_exchanged")].arg)
               /\ now' = now
       /\ (pc[t] = "refresh_wait" /\ HasEv(log'[t], "refresh_ok"))
            => /\ h'.token_expires_at =
                    ExpiryFor(log'[t][LastPos(log'[t], "refresh_ok")].arg[4])
               /\ now' = now]_vars

\* some time after the start, an exchange whose response had no expires_in
\* has stored an expiry
C29_Witness ==
  \E t \in Tasks :
    /\ now > 0
    /\ pc[t] = "idle"
    /\ HasEv(log[t], "token_exchanged")
    /\ log[t][LastPos(log[t], "token_exchanged")].arg = <<>>
    /\ h.token_expires_at = now + 3600

\* C30: for a header of comma-separated challenge parameters in any order,
\* with or without a scheme, _parse_as_uri_from_header returns exactly the
\* value of the parameter named as_uri when there is one, and none when no
\* part of the header contains the key as_uri=.
C30_ParsesAsUri ==
  \A t \in Tasks :
    (log[t] # <<>> /\ log[t][1].ev = "www_authenticate") =>
      LET ps == log[t][1].arg.params
          out == log[t][2].arg
      IN /\ \A i \in 1..Len(ps) :
              IsAsUri(ps[i]) => out.found /\ out.value = ps[i].value
         /\ (\A i \in 1..Len(ps) : ~ContainsKey(Render(ps[i]))) => ~out.found

\* C31: whatever the order of the listener's writes and the coordinator's
\* reads, the code of a token-exchange request arrived in a callback whose
\* state is the state of the session; the code of a callback with another
\* state, or with none, is never sent.
C31_ExchangedCodeCameWithSessionState ==
  [][\A t \in Tasks :
       (req'[t] # req[t] /\ req'[t].kind = "token"
          /\ req'[t].grant_type = "authorization_code")
       => /\ req'[t].code = server[t].auth_code
          /\ server[t].code_state = h.state]_vars

\* C32: when exactly one callback arrives and it carries a code with the
\* state of the session, the coordinator sees the code and the state
\* together, whatever the order of the listener's two writes and its own
\* reads: the state it checks is the state of that callback, it reports no
\* state mismatch, and it goes on to the token exchange.
C32_SingleCallbackHandedOverWhole ==
  \A t \in Tasks :
    /\ \A i \in 1..Len(log[t]) :
         log[t][i].ev = "state_read" => log[t][i].arg[1] = h.state
    /\ ret[t] # Error("STATE_MISMATCH")
    /\ pc[t] \in {"check_error", "check_state"} => server[t].received_state = h.state

\* C33: the metadata of the session, whenever it is set, holds both an
\* authorization_endpoint and a token_endpoint; a discovery document that
\* lacks either is not taken as the metadata of the session.
C33_SelectedMetadataHasBothEndpoints ==
  h.auth_server_metadata.present =>
    /\ h.auth_server_metadata.authorization_endpoint # NoneSeq
    /\ h.auth_server_metadata.token_endpoint # NoneSeq

\* C34: after a get_valid_token call in which the refresh failed, the old
\* access token and the rejected refresh token are gone from the handler:
\* replaced by the tokens of the full flow when it succeeded, destroyed when
\* it failed.
C34_FailedRefreshDropsTokens ==
  \A t \in Tasks :
    (pc[t] = "idle" /\ op[t] = "gvt" /\ HasEv(log[t], "refresh_failed")) =>
      \/ HasEv(log[t], "token_exchanged")
      \/ /\ h.access_token = None
         /\ h.refresh_token = None

\* C35: a token exchange or a refresh whose request fails (network error or
\* error status) leaves access_token, refresh_token and token_expires_at as
\* they were before the request.
C35_FailedTokenRequestKeepsTokens ==
  [][\A t \in Tasks :
       (\/ pc[t] = "exchange_wait" /\ pc'[t] # "exchange_wait"
             /\ ~HasEv(log'[t], "token_exchanged")
        \/ pc[t] = "refresh_wait" /\ pc'[t] # "refresh_wait"
             /\ ~HasEv(log'[t], "refresh_ok"))
       => /\ h'.access_token = h.access_token
          /\ h'.refresh_token = h.refresh_token
          /\ h'.token_expires_at = h.token_expires_at]_vars

\* an exchange has failed in a handler that held tokens, and holds them still
C35_Witness ==
  \E t \in Tasks :
    /\ pc[t] = "idle"
    /\ ret[t] = Error("EXCHANGE_FAILED")
    /\ HasEv(log[t], "exchange_post")
    /\ Truthy(h.access_token)
    /\ Truthy(h.refresh_token)
    /\ h.token_expires_at # NoneTime

\* task t's listener answers a request without code and error in this step
InvalidServed(t) == ~HasInvalid(log[t]) /\ HasInvalid(log'[t])

\* C36: a callback request with neither code nor error changes none of
\* auth_code, auth_error and received_state, and nothing of the coordinator:
\* the coordinator keeps waiting, and leaves the wait only for a callback
\* with a code or an error, or by the timeout.
C36_InvalidCallbackChangesNothing ==
  [][\A t \in Tasks :
       /\ InvalidServed(t) =>
            /\ server'[t] = server[t]
            /\ lis'[t] = lis[t]
            /\ pc'[t] = pc[t] /\ ret'[t] = ret[t] /\ req'[t] = req[t]
            /\ start_time'[t] = start_time[t]
            /\ h' = h
       /\ (pc[t] = "poll" /\ HasInvalid(log[t]) /\ pc'[t] # "poll") =>
            \/ /\ pc'[t] = "check_error"
               /\ (server[t].auth_code # None \/ server[t].auth_error # None)
            \/ /\ ret'[t] = Error("TIMEOUT")
               /\ server[t].auth_code = None /\ server[t].auth_error = None
               /\ now - start_time[t] > CALLBACK_TIMEOUT]_vars

\* after a request without code and error the flow has completed with a later
\* valid callback
C36_Witness ==
  \E t \in Tasks :
    /\ pc[t] = "idle"
    /\ ret[t].kind = "token"
    /\ HasInvalid(log[t])
    /\ LastPos(log[t], "invalid_callback") < LastPos(log[t], "state_read")
    /\ HasEv(log[t], "token_exchanged")

\* the clock of the model has reached its bound before the deadline of task
\* t's wait: time no longer advances
ClockStopped(t) ==
  /\ pc[t] = "poll"
  /\ now + CALLBACK_TIMEOUT > MaxNow
  /\ now - start_time[t] <= CALLBACK_TIMEOUT

\* C37: when every HTTP request completes and time advances, every
\* get_valid_token call ends, with a token or an error; one call makes at
\* most one refresh request and runs the full flow at most once.
C37_EveryCallEnds ==
  /\ [](\A t \in Tasks :
          /\ Count(log[t], "refresh_post") <= 1
          /\ Count(log[t], "flow_start") <= 1
          /\ Count(log[t], "exchange_post") <= 1)
  /\ \A t \in Tasks :
       (pc[t] \notin {"idle", "off"}) ~>
         (\/ pc[t] = "idle" /\ ret[t].kind \in {"token", "error"}
          \/ ClockStopped(t))

\* a call has ended by the timeout of the wait
C37_Witness ==
  \E t \in Tasks :
    /\ pc[t] = "idle"
    /\ ret[t] = Error("TIMEOUT")
    /\ now > CALLBACK_TIMEOUT
    /\ ~HasEv(log[t], "exchange_post")

\* task t posts to the protected resource in this step
Posts(t) == req[t].kind # "mcp" /\ req'[t].kind = "mcp"

\* C38: every request and every notification the client posts carries the
\* mcp-session-id most recently received in the header of any response,
\* whatever its status, and no such header when none has been received.
C38_SessionIdIsTheLastReceived ==
  [][\A t \in Tasks : Posts(t) => req'[t].session_id = sent.session]_vars

====
